---- MODULE Spec2Model ----
(***************************************************************************)
(* Identity resolution and violation detection of the CPC / duplicate /    *)
(* phone-conflict checkers (CPC_Duplicate_Helper) and of the violation     *)
(* writer disqualify_lead (utils/file_utils.py).                           *)
(*                                                                         *)
(* A Python str is a sequence of one-character strings, so that lower(),   *)
(* strip(), endswith(), the "in" substring test, slicing and f-string      *)
(* formatting are computed character by character.  A worksheet row dict   *)
(* is a function from column name to str.                                  *)
(***************************************************************************)
EXTENDS Integers, Sequences, FiniteSets, TLC

(***************************************************************************)
(* Python str primitives                                                   *)
(***************************************************************************)
LowerLetters == <<"a", "b", "c", "d", "e", "f", "g", "h", "i", "j", "k", "l", "m", "n", "o", "p", "q", "r", "s", "t", "u", "v", "w", "x", "y", "z">>
UpperLetters == <<"A", "B", "C", "D", "E", "F", "G", "H", "I", "J", "K", "L", "M", "N", "O", "P", "Q", "R", "S", "T", "U", "V", "W", "X", "Y", "Z">>
DigitChars == <<"0", "1", "2", "3", "4", "5", "6", "7", "8", "9">>

Range(s) == {s[k] : k \in 1..Len(s)}

Min(S) == CHOOSE x \in S : \A y \in S : x <= y

Max(S) == CHOOSE x \in S : \A y \in S : x >= y

UpperSet == Range(UpperLetters)

AlnumSet == Range(LowerLetters) \cup Range(UpperLetters) \cup Range(DigitChars)

DigitSet == Range(DigitChars)

\* str.lower() on one upper-case letter
LowerOf == [c \in UpperSet |-> LowerLetters[CHOOSE k \in 1..26 : UpperLetters[k] = c]]

\* str.lower() on one character
LowerChar(c) == IF c \in UpperSet THEN LowerOf[c] ELSE c

\* str.lower()
Lower(s) == [k \in 1..Len(s) |-> LowerChar(s[k])]

\* str.isspace() on one character
IsSpace(c) == c = " "

\* str.isalnum() on one character
IsAlnum(c) == c \in AlnumSet

\* str.isdigit() on one character (the regex class \d)
IsDigit(c) == c \in DigitSet

\* str.strip(): drop leading and trailing whitespace
Strip(s) ==
    LET ks == {k \in 1..Len(s) : ~IsSpace(s[k])}
    IN IF ks = {} THEN <<>> ELSE SubSeq(s, Min(ks), Max(ks))

\* str.startswith(p)
StartsWith(s, p) == Len(p) <= Len(s) /\ SubSeq(s, 1, Len(p)) = p

\* str.endswith(p)
EndsWith(s, p) == Len(p) <= Len(s) /\ SubSeq(s, Len(s) - Len(p) + 1, Len(s)) = p

\* the Python test  m in s  on two strs
IsSubstring(m, s) ==
    \E k \in 0..(Len(s) - Len(m)) : SubSeq(s, k + 1, k + Len(m)) = m

\* str.split(sep) for a one-character separator: the list of pieces, empty ones kept
RECURSIVE SplitOn(_, _)
SplitOn(s, sep) ==
    LET ks == {k \in 1..Len(s) : s[k] = sep}
    IN IF ks = {} THEN <<s>>
       ELSE <<SubSeq(s, 1, Min(ks) - 1)>> \o SplitOn(SubSeq(s, Min(ks) + 1, Len(s)), sep)

\* str.split() without argument: pieces between runs of whitespace, empty ones dropped
SplitWs(s) == SelectSeq(SplitOn(s, " "), LAMBDA p : p # <<>>)

\* sep.join(parts)
RECURSIVE Join(_, _)
Join(sep, parts) ==
    IF parts = <<>> THEN <<>>
    ELSE IF Len(parts) = 1 THEN parts[1]
    ELSE parts[1] \o sep \o Join(sep, Tail(parts))

\* str(n) for a natural number n
RECURSIVE IntToStr(_)
IntToStr(n) ==
    IF n < 10 THEN <<DigitChars[n + 1]>>
    ELSE IntToStr(n \div 10) \o <<DigitChars[(n % 10) + 1]>>

\* dict.get(key, default)
DictGet(d, key, default) == IF key \in DOMAIN d THEN d[key] ELSE default

\* d[key] += 1 on a defaultdict(int)
DictIncr(d, key) ==
    [k \in DOMAIN d \cup {key} |-> IF k = key THEN DictGet(d, key, 0) + 1 ELSE d[k]]

\* reading d[key] on a defaultdict(int) stores the default 0 for a missing key
DictTouch(d, key) == [k \in DOMAIN d \cup {key} |-> DictGet(d, k, 0)]

NotAvailable == "Not Available"

(***************************************************************************)
(* Normalizer: CPC_Duplicate_Helper/utils.py, utils/email_utils.py         *)
(***************************************************************************)
\* the suffixes list of normalize_company, in source order
suffixes == <<
    <<",", " ", "i", "n", "c", ".">>,
    <<" ", "i", "n", "c", ".">>,
    <<",", " ", "i", "n", "c">>,
    <<" ", "i", "n", "c">>,
    <<",", " ", "l", "l", "c">>,
    <<" ", "l", "l", "c">>,
    <<",", " ", "l", ".", "l", ".", "c", ".">>,
    <<" ", "l", ".", "l", ".", "c", ".">>,
    <<",", " ", "l", "t", "d", ".">>,
    <<" ", "l", "t", "d", ".">>,
    <<",", " ", "l", "t", "d">>,
    <<" ", "l", "t", "d">>,
    <<",", " ", "l", "i", "m", "i", "t", "e", "d">>,
    <<" ", "l", "i", "m", "i", "t", "e", "d">>,
    <<",", " ", "c", "o", "r", "p", ".">>,
    <<" ", "c", "o", "r", "p", ".">>,
    <<",", " ", "c", "o", "r", "p">>,
    <<" ", "c", "o", "r", "p">>,
    <<",", " ", "c", "o", "r", "p", "o", "r", "a", "t", "i", "o", "n">>,
    <<" ", "c", "o", "r", "p", "o", "r", "a", "t", "i", "o", "n">>,
    <<",", " ", "c", "o", ".">>,
    <<" ", "c", "o", ".">>,
    <<",", " ", "c", "o">>,
    <<" ", "c", "o">>,
    <<",", " ", "c", "o", "m", "p", "a", "n", "y">>,
    <<" ", "c", "o", "m", "p", "a", "n", "y">>,
    <<",", " ", "g", "m", "b", "h">>,
    <<" ", "g", "m", "b", "h">>,
    <<",", " ", "s", ".", "a", ".">>,
    <<" ", "s", ".", "a", ".">>,
    <<",", " ", "s", "a">>,
    <<" ", "s", "a">>,
    <<",", " ", "p", "l", "c">>,
    <<" ", "p", "l", "c">>,
    <<",", " ", "p", ".", "l", ".", "c", ".">>,
    <<" ", "p", ".", "l", ".", "c", ".">>,
    <<",", " ", "l", "l", "p">>,
    <<" ", "l", "l", "p">>,
    <<",", " ", "l", ".", "l", ".", "p", ".">>,
    <<" ", "l", ".", "l", ".", "p", ".">>,
    <<",", " ", "l", "p">>,
    <<" ", "l", "p">>,
    <<",", " ", "l", ".", "p", ".">>,
    <<" ", "l", ".", "p", ".">>,
    <<",", " ", "a", "g">>,
    <<" ", "a", "g">>,
    <<",", " ", "a", ".", "g", ".">>,
    <<" ", "a", ".", "g", ".">>,
    <<",", " ", "n", "v">>,
    <<" ", "n", "v">>,
    <<",", " ", "n", ".", "v", ".">>,
    <<" ", "n", ".", "v", ".">>,
    <<",", " ", "b", "v">>,
    <<" ", "b", "v">>,
    <<",", " ", "b", ".", "v", ".">>,
    <<" ", "b", ".", "v", ".">> >>

\* the prefixes list of normalize_company, in source order
prefixes == << <<"t", "h", "e", " ">>, <<"a", " ">> >>

\* for prefix in prefixes: if normalized.startswith(prefix): drop it
RECURSIVE StripPrefixes(_, _)
StripPrefixes(s, ps) ==
    IF ps = <<>> THEN s
    ELSE StripPrefixes(IF StartsWith(s, Head(ps)) THEN SubSeq(s, Len(Head(ps)) + 1, Len(s)) ELSE s,
                       Tail(ps))

\* for suffix in suffixes: if normalized.endswith(suffix): cut it, strip, break
StripFirstSuffix(s) ==
    LET ks == {k \in 1..Len(suffixes) : EndsWith(s, suffixes[k])}
    IN IF ks = {} THEN s
       ELSE Strip(SubSeq(s, 1, Len(s) - Len(suffixes[Min(ks)])))

\* normalize_company(name)
normalize_company(name) ==
    IF name = <<>> THEN <<>>
    ELSE LET lowered == Lower(Strip(name))
             noPrefix == StripPrefixes(lowered, prefixes)
             noSuffix == StripFirstSuffix(noPrefix)
             kept == SelectSeq(noSuffix, LAMBDA c : IsAlnum(c) \/ IsSpace(c))
         IN Join(<<" ">>, SplitWs(kept))

\* the public suffixes the model of tldextract knows (each a list of labels)
PublicSuffixes == { << <<"c", "o", "m">> >>, << <<"o", "r", "g">> >>, << <<"s", "a">> >>, << <<"c", "o", "m">>, <<"s", "a">> >> }

\* tldextract.extract(domain).domain for a host name: the label left of the
\* longest public suffix; the last label when no suffix is known; empty when
\* the whole name is a public suffix
TldDomain(domain) ==
    LET labels == SplitOn(domain, ".")
        n == Len(labels)
        ks == {k \in 1..n : SubSeq(labels, k, n) \in PublicSuffixes}
    IN IF ks = {} THEN labels[n]
       ELSE IF Min(ks) = 1 THEN <<>>
       ELSE labels[Min(ks) - 1]

\* extract_root_domain(domain)
extract_root_domain(domain) ==
    IF domain = <<>> THEN <<>>
    ELSE IF TldDomain(domain) # <<>> THEN TldDomain(domain) ELSE Lower(domain)

\* normalize_phone(phone_str): re.sub(r"[^\d]", "", str(phone_str).strip())
normalize_phone(phone_str) ==
    IF phone_str = <<>> THEN <<>>
    ELSE SelectSeq(Strip(phone_str), IsDigit)

(***************************************************************************)
(* Input rows of the bounded passes, and the normalizers tabulated on      *)
(* their cell texts (each text is normalized once)                         *)
(***************************************************************************)
CpcLeadRows ==
    { [Company |-> <<"A", "c", "m", "e">>,           Domain |-> <<"a", "c", "m", "e", ".", "c", "o", "m">>,    TAL |-> <<>>],
      [Company |-> <<"A", "c", "m", "e">>,           Domain |-> <<"b", "e", "t", "a", ".", "o", "r", "g">>,    TAL |-> <<"B", "e", "t", "a", " ", "L", "L", "C">>],
      [Company |-> <<"A", "c", "m", "e">>,           Domain |-> <<>>,            TAL |-> <<>>],
      [Company |-> <<>>,               Domain |-> <<>>,            TAL |-> <<"B", "e", "t", "a", " ", "L", "L", "C">>],
      [Company |-> <<"T", "h", "e", " ", "B", "e", "t", "a", ",", " ", "I", "n", "c", ".">>, Domain |-> <<"B", "e", "t", "a", ".", "c", "o", "m", ".", "s", "a">>, TAL |-> <<>>] }

CpcDeliveryRows ==
    { [Company |-> <<"A", "c", "m", "e", " ", "I", "n", "c">>, Domain |-> <<"a", "c", "m", "e", ".", "c", "o", "m">>, TAL |-> <<>>],
      [Company |-> <<"B", "e", "t", "a", " ", "L", "L", "C">>, Domain |-> <<>>,         TAL |-> <<"B", "e", "t", "a">>] }

\* a row of the duplicate and phone passes
CheckRow(phone, company, domain, email, linkedin, first, last, status) ==
    [Phone |-> phone, Company |-> company, Domain |-> domain, Email |-> email,
     LinkedIn |-> linkedin, First |-> first, Last |-> last, Status |-> status]

JonathanKyle ==
    CheckRow(<<>>, <<"X">>, <<"x", ".", "c", "o", "m">>, <<"j", "k", "@", "x", ".", "c", "o", "m">>, <<>>, <<"J", "o", "n", "a", "t", "h", "a", "n">>, <<"K", "y", "l", "e">>, <<>>)

KyleFleming ==
    CheckRow(<<>>, <<"X">>, <<"x", ".", "c", "o", "m">>, <<"k", "f", "@", "x", ".", "c", "o", "m">>, <<>>, <<"K", "y", "l", "e">>, <<"F", "l", "e", "m", "i", "n", "g">>, <<>>)

CheckLeadRows ==
    { JonathanKyle,
      KyleFleming,
      CheckRow(<<"5", "5", "5">>, <<"X">>, <<"x", ".", "c", "o", "m">>, <<>>, <<>>, <<"J", "o", "n", "-", "A", "t", "h", "a", "n">>, <<"K", "y", "l", "e", "s">>, <<>>),
      CheckRow(<<"5", "-", "5", "5">>, <<>>, <<"a", "c", "m", "e", ".", "c", "o", "m">>, <<"J", "K", "@", "x", ".", "c", "o", "m">>, <<"l", ".", "c", "o", "/", "i", "n", "/", "j", "k", "/">>, <<>>, <<>>, <<>>),
      CheckRow(<<"5", "5", "5">>, <<"A", "c", "m", "e">>, <<>>, <<>>, <<"L", ".", "c", "o", "/", "i", "n", "/", "j", "k", "?", "t", "=", "1">>, <<>>, <<>>, <<>>),
      CheckRow(<<"5", "5", "5">>, <<"B", "e", "t", "a">>, <<"b", "e", "t", "a", ".", "o", "r", "g">>, <<"j", "k", "@", "x", ".", "c", "o", "m">>, <<"l", ".", "c", "o", "/", "i", "n", "/", "j", "k", "/">>, <<>>, <<>>,
               <<"D", "i", "s", "q", "u", "a", "l", "i", "f", "i", "e", "d">>) }

CheckDeliveryRows ==
    { CheckRow(<<"5", "5", "5">>, <<"B", "e", "t", "a">>, <<"b", "e", "t", "a", ".", "o", "r", "g">>, <<"k", "f", "@", "x", ".", "c", "o", "m">>, <<"l", ".", "c", "o", "/", "i", "n", "/", "j", "k", "/">>,
               <<>>, <<>>, <<>>),
      CheckRow(<<"(", "5", ")", "5", "5">>, <<"A", "C", "M", "E">>, <<>>, <<>>, <<>>, <<>>, <<>>, <<>>) }

\* delivery rows with names: one whose permutations are generated and one whose
\* first name makes the generator raise
DupDeliveryRows ==
    { CheckRow(<<>>, <<"A", "c", "m", "e">>, <<"a", "c", "m", "e", ".", "c", "o", "m">>, <<"x", "1", "@", "a", "c", "m", "e", ".", "c", "o", "m">>, <<>>, <<"J", "a", "n", "e">>, <<"D", "o", "e">>, <<>>),
      CheckRow(<<>>, <<"A", "c", "m", "e">>, <<"a", "c", "m", "e", ".", "c", "o", "m">>, <<"x", "2", "@", "a", "c", "m", "e", ".", "c", "o", "m">>, <<>>, <<"#">>, <<"D", "o", "e">>, <<>>) }

\* lead rows with names: a permutation of a delivery name under a new email, a first
\* name that makes the generator raise, a delivery email in capitals, a row without
\* names, and a row that is already disqualified
DupLeadRows ==
    { CheckRow(<<>>, <<"A", "c", "m", "e">>, <<"A", "c", "m", "e", ".", "c", "o", "m">>, <<"n", "e", "w", "@", "a", "c", "m", "e", ".", "c", "o", "m">>, <<>>, <<"J", "a", "n", "e">>, <<"D", "o", "e">>, <<>>),
      CheckRow(<<>>, <<"A", "c", "m", "e">>, <<"a", "c", "m", "e", ".", "c", "o", "m">>, <<"d", "u", "p", "@", "a", "c", "m", "e", ".", "c", "o", "m">>, <<>>, <<"#">>, <<"D", "o", "e">>, <<>>),
      CheckRow(<<>>, <<"A", "c", "m", "e">>, <<"a", "c", "m", "e", ".", "c", "o", "m">>, <<"X", "1", "@", "a", "c", "m", "e", ".", "c", "o", "m">>, <<>>, <<"J", "a", "n", "e">>, <<"D", "o", "e">>, <<>>),
      CheckRow(<<>>, <<"A", "c", "m", "e">>, <<"a", "c", "m", "e", ".", "c", "o", "m">>, <<"n", "e", "w", "@", "a", "c", "m", "e", ".", "c", "o", "m">>, <<>>, <<>>, <<>>, <<>>),
      CheckRow(<<>>, <<"A", "c", "m", "e">>, <<"a", "c", "m", "e", ".", "c", "o", "m">>, <<"x", "1", "@", "a", "c", "m", "e", ".", "c", "o", "m">>, <<>>, <<"J", "a", "n", "e">>, <<"D", "o", "e">>,
               <<"D", "i", "s", "q", "u", "a", "l", "i", "f", "i", "e", "d">>) }

\* lead rows of the duplicate passes with names: a person; the same first name with a
\* last name that differs after three letters; another person under the first one's
\* email; that person under an own email; the first person already disqualified; and
\* names that differ from the first person's but concatenate to the same letters
PassLeadRows ==
    { CheckRow(<<>>, <<"X">>, <<"x", ".", "c", "o", "m">>, <<"a", "@", "x", ".", "c", "o", "m">>, <<"l", ".", "c", "o", "/", "i", "n", "/", "a", "/">>, <<"J", "o", "n", "a", "t", "h", "a", "n">>, <<"K", "y", "l", "e">>,
               <<>>),
      CheckRow(<<>>, <<"X">>, <<"x", ".", "c", "o", "m">>, <<"b", "@", "x", ".", "c", "o", "m">>, <<>>, <<"J", "o", "n", "-", "A", "t", "h", "a", "n">>, <<"K", "y", "l", "e", "s">>, <<>>),
      CheckRow(<<>>, <<"X">>, <<"x", ".", "c", "o", "m">>, <<"A", "@", "x", ".", "c", "o", "m">>, <<>>, <<"K", "y", "l", "e">>, <<"F", "l", "e", "m", "i", "n", "g">>, <<>>),
      CheckRow(<<>>, <<"X">>, <<"X", ".", "c", "o", "m">>, <<"d", "@", "x", ".", "c", "o", "m">>, <<>>, <<"K", "y", "l", "e">>, <<"F", "l", "e", "m", "i", "n", "g">>, <<>>),
      CheckRow(<<>>, <<"X">>, <<"x", ".", "c", "o", "m">>, <<"a", "@", "x", ".", "c", "o", "m">>, <<"l", ".", "c", "o", "/", "i", "n", "/", "a", "/">>, <<"J", "o", "n", "a", "t", "h", "a", "n">>, <<"K", "y", "l", "e">>,
               <<"D", "i", "s", "q", "u", "a", "l", "i", "f", "i", "e", "d">>),
      CheckRow(<<>>, <<"X">>, <<"x", ".", "c", "o", "m">>, <<>>, <<>>, <<"J", "o">>, <<"N", "a", "t", "h", "a", "n", "k", "y", "l", "e">>, <<>>) }

PassDeliveryRows ==
    { CheckRow(<<>>, <<"X">>, <<"x", ".", "c", "o", "m">>, <<"d", "@", "x", ".", "c", "o", "m">>, <<>>, <<>>, <<>>, <<>>) }

\* a row of the phone passes: phone, company and domain cells
PhoneRow(phone, company, domain) ==
    CheckRow(phone, company, domain, <<>>, <<>>, <<>>, <<>>, <<>>)

\* delivery rows of one phone number: a company without domain, a domain, and a row
\* without company and domain
PhoneDeliveryRows ==
    { PhoneRow(<<"(", "5", ")", "5", "5">>, <<"A", "c", "m", "e">>, <<>>),
      PhoneRow(<<"5", "5", "5">>, <<"B", "e", "t", "a">>, <<"b", "e", "t", "a", ".", "o", "r", "g">>),
      PhoneRow(<<"5", "5", "5">>, <<>>, <<>>) }

\* lead rows: two identities under one number, a company with a legal suffix and no
\* domain, two identities under a second number, a blank phone, a blank identity
PhoneLeadRows ==
    { PhoneRow(<<"5", "5", "5">>, <<"A", "c", "m", "e">>, <<"a", "c", "m", "e", ".", "c", "o", "m">>),
      PhoneRow(<<"5", "-", "5", "5">>, <<"B", "e", "t", "a">>, <<"b", "e", "t", "a", ".", "o", "r", "g">>),
      PhoneRow(<<"5", "5", "5">>, <<"A", "c", "m", "e", ",", " ", "I", "n", "c", ".">>, <<>>),
      PhoneRow(<<"7", "7", "7">>, <<"A", "c", "m", "e">>, <<>>),
      PhoneRow(<<"7", "7", "7">>, <<"B", "e", "t", "a">>, <<>>),
      PhoneRow(<<>>, <<"A", "c", "m", "e">>, <<"a", "c", "m", "e", ".", "c", "o", "m">>),
      PhoneRow(<<"5", "5", "5">>, <<>>, <<>>) }

\* lead rows of the CPC checkers: two exact domains of one root domain, the company
\* under another root domain, a domain that is a public suffix, and a row with a TAL
\* company only
CheckerLeadRows ==
    { [Company |-> <<"A", "c", "m", "e">>, Domain |-> <<"a", "c", "m", "e", ".", "c", "o", "m">>, TAL |-> <<>>],
      [Company |-> <<"A", "c", "m", "e">>, Domain |-> <<"a", "c", "m", "e", ".", "o", "r", "g">>, TAL |-> <<"B", "e", "t", "a", " ", "L", "L", "C">>],
      [Company |-> <<"A", "c", "m", "e">>, Domain |-> <<"b", "e", "t", "a", ".", "o", "r", "g">>, TAL |-> <<"B", "e", "t", "a", " ", "L", "L", "C">>],
      [Company |-> <<"B", "e", "t", "a">>, Domain |-> <<"c", "o", "m">>,      TAL |-> <<>>],
      [Company |-> <<>>,     Domain |-> <<>>,         TAL |-> <<"B", "e", "t", "a", " ", "L", "L", "C">>] }

CheckerDeliveryRows ==
    { [Company |-> <<"A", "c", "m", "e", " ", "I", "n", "c">>, Domain |-> <<"a", "c", "m", "e", ".", "o", "r", "g">>, TAL |-> <<>>],
      [Company |-> <<>>,         Domain |-> <<"c", "o", "m">>,      TAL |-> <<"B", "e", "t", "a">>] }

AllRows ==
    CpcLeadRows \cup CpcDeliveryRows \cup CheckLeadRows \cup CheckDeliveryRows
    \cup PhoneLeadRows \cup PhoneDeliveryRows
    \cup CheckerLeadRows \cup CheckerDeliveryRows
    \cup PassLeadRows \cup PassDeliveryRows
    \cup { [Company |-> <<",", " ", "I", "n", "c">>] }

CellTexts == UNION { {r[c] : c \in DOMAIN r} : r \in AllRows }

KnownTexts == CellTexts \cup {Lower(Strip(t)) : t \in CellTexts}

normalize_company_table == [t \in KnownTexts |-> normalize_company(t)]

extract_root_domain_table == [t \in KnownTexts |-> extract_root_domain(t)]

\* normalize_company(name), looked up when name is a tabulated text
NormalizeCompany(name) ==
    IF name \in KnownTexts THEN normalize_company_table[name] ELSE normalize_company(name)

\* extract_root_domain(domain), looked up when domain is a tabulated text
ExtractRootDomain(domain) ==
    IF domain \in KnownTexts THEN extract_root_domain_table[domain]
    ELSE extract_root_domain(domain)


(***************************************************************************)
(* State                                                                   *)
(***************************************************************************)
VARIABLES
    pc,                          \* position of the running pass
    mapping,                     \* role -> column name or "Not Available"
    delivery_data,               \* list of delivery row dicts
    lead_data,                   \* list of lead row dicts
    cpc_limit,                   \* DomainBasedChecker.cpc_limit
    i,                           \* index of the next row of the running loop
    ws,                          \* lead worksheet: per lead row, header -> cell text
    delivery_counts,             \* run_domain_based_cpc_check: delivery_counts
    delivery_counts_traditional, \* run_domain_based_cpc_check: delivery_counts_traditional
    lead_counts,                 \* run_domain_based_cpc_check: lead_counts
    lead_counts_traditional,     \* run_domain_based_cpc_check: lead_counts_traditional
    cpc_stats,                   \* DomainBasedChecker.stats
    violations,                  \* per processed lead row, the list "violations" of the loop body
    calls,                       \* the disqualify_lead calls made: row, reason, comment
    phone_to_company,            \* run_internal_phone_check: phone_to_company
    delivery_phone_to_domain,    \* SimplePhoneChecker.delivery_phone_to_domain
    phone_stats,                 \* the phone checker's stats
    seen_signatures,             \* run_internal_duplicate_check: seen_signatures
    delivery_signatures,         \* run_duplicate_check: delivery_signatures
    lead_signatures,             \* run_duplicate_check: lead_signatures
    dup_stats,                   \* the duplicate checker's stats
    internal_counts,             \* run_internal_cpc_check: internal_counts
    internal_stats,              \* InternalCPCChecker.stats
    internal_violations,         \* per processed lead row, "violations" of the internal loop body
    args,                        \* the arguments of a function called on its own
    result                       \* the values its successive calls returned

\* the inputs of a pass
passInputs == <<mapping, delivery_data, lead_data, cpc_limit>>

\* the arguments and results of a function called on its own
callVars == <<args, result>>

\* what no pass assigns
inputVars == <<passInputs, callVars>>

\* the state of InternalCPCChecker
internalVars == <<internal_counts, internal_stats, internal_violations>>

cpcVars == <<delivery_counts, delivery_counts_traditional, lead_counts,
             lead_counts_traditional, cpc_stats, violations, internalVars>>

phoneVars == <<phone_to_company, delivery_phone_to_domain, phone_stats>>

dupVars == <<seen_signatures, delivery_signatures, lead_signatures, dup_stats>>

\* the writer's call log and the state of the phone and duplicate checkers
checkVars == <<calls, phoneVars, dupVars>>

vars == <<pc, i, ws, inputVars, cpcVars, checkVars>>

(***************************************************************************)
(* Violation Writer: utils/file_utils.py                                   *)
(***************************************************************************)
Disqualified == <<"D", "i", "s", "q", "u", "a", "l", "i", "f", "i", "e", "d">>

CommaSpace == <<",", " ">>

\* the three cells disqualify_lead works on
StatusHeader == "Lead Status"

ReasonHeader == "DQ Reason"

CommentHeader == "QA Comment"

\* the comment cell after disqualify_lead: appended unless already contained
CommentAfter(value, comment) ==
    LET existing_comment == Strip(value)
    IN IF IsSubstring(comment, existing_comment) THEN value
       ELSE IF existing_comment # <<>> THEN existing_comment \o CommaSpace \o comment
       ELSE comment

\* disqualify_lead overwriting status and reason
disqualify_lead_overwrite(row, reason, comment) ==
    [row EXCEPT
        ![StatusHeader] = Disqualified,
        ![ReasonHeader] = reason,
        ![CommentHeader] = CommentAfter(@, comment)]

\* disqualify_lead(ws, row, col_status, col_reason, col_comment, reason, comment)
\* on one worksheet row; an empty cell (None or "") is the empty str
disqualify_lead(row, reason, comment) ==
    [row EXCEPT
        ![StatusHeader] = IF row[StatusHeader] = <<>> THEN Disqualified ELSE @,
        ![ReasonHeader] = IF row[ReasonHeader] = <<>> THEN reason ELSE @,
        ![CommentHeader] = CommentAfter(@, comment)]

\* ensure_col_in_ws(ws_headers, ws, name) on one worksheet row
ensure_col_in_ws(row, name) ==
    [c \in DOMAIN row \cup {name} |-> DictGet(row, c, <<>>)]

\* lead_ws.cell(idx, col, value)
SetCell(row, header, value) == [row EXCEPT ![header] = value]

\* the orders in which list(set(xs)) can enumerate the distinct elements of xs
SetOrders(xs) ==
    LET S == Range(xs)
    IN {o \in [1..Cardinality(S) -> S] : Range(o) = S}

\* xs[:n]
Take(xs, n) == SubSeq(xs, 1, IF Len(xs) < n THEN Len(xs) ELSE n)


(***************************************************************************)
(* CPC Counter: CPC_Duplicate_Helper/domain_based_checker.py               *)
(***************************************************************************)
RootDomainPrefix == <<"r", "o", "o", "t", "_", "d", "o", "m", "a", "i", "n", ":">>

CompanyPrefix == <<"c", "o", "m", "p", "a", "n", "y", ":">>

ExtraCPC == <<"E", "x", "t", "r", "a", " ", "C", "P", "C">>

\* a cell normalised as a company name: normalize_company of the stripped cell, when
\* the column is mapped and the cell is not blank (lines 21, 27-28 and 85-87, 137-139)
TalValue(row, tal_col) ==
    IF tal_col # NotAvailable /\ Strip(DictGet(row, tal_col, <<>>)) # <<>>
    THEN NormalizeCompany(Strip(DictGet(row, tal_col, <<>>)))
    ELSE <<>>

\* the exact-domain value of a row: stripped, lowercased cell, when mapped (line 22)
DomainValue(row, domain_col) ==
    IF domain_col # NotAvailable
    THEN Lower(Strip(DictGet(row, domain_col, <<>>)))
    ELSE <<>>

\* RootDomainOf giving "" for a domain that is a public suffix
RootDomainOfRegistered(domain_raw) ==
    IF domain_raw # <<>> THEN TldDomain(domain_raw) ELSE <<>>

\* root_domain of a lowercased domain cell (line 26)
RootDomainOf(domain_raw) ==
    IF domain_raw # <<>> THEN ExtractRootDomain(domain_raw) ELSE <<>>

\* CompanyIdentifier preferring the company name over the root domain
CompanyIdentifierCompanyFirst(domain_raw, root_domain, company) ==
    [identifier |-> IF company # <<>> THEN CompanyPrefix \o company
                    ELSE IF root_domain # <<>> THEN RootDomainPrefix \o root_domain
                    ELSE <<>>,
     display_name |-> IF company # <<>> THEN company ELSE root_domain,
     domain |-> domain_raw,
     company |-> company,
     root_domain |-> root_domain]

\* the 5-tuple returned by get_company_identifier from its three locals (lines 31-52)
CompanyIdentifier(domain_raw, root_domain, company) ==
    [identifier |-> IF root_domain # <<>> THEN RootDomainPrefix \o root_domain
                    ELSE IF company # <<>> THEN CompanyPrefix \o company
                    ELSE <<>>,
     display_name |-> IF root_domain # <<>>
                      THEN (IF company # <<>>
                            THEN company \o <<" ", "(">> \o root_domain \o <<")">>
                            ELSE root_domain)
                      ELSE IF company # <<>> THEN company
                      ELSE <<>>,
     domain |-> domain_raw,
     company |-> company,
     root_domain |-> root_domain]

\* DomainBasedChecker.get_company_identifier
get_company_identifier(row, company_col, domain_col) ==
    CompanyIdentifier(DomainValue(row, domain_col),
                      RootDomainOf(DomainValue(row, domain_col)),
                      TalValue(row, company_col))

\* the writes of get_company_identifier to self.stats
StatsAfterIdentifier(stats, id) ==
    IF id.root_domain = <<>> THEN stats
    ELSE [stats EXCEPT
            !.domain_company_mapping =
                IF id.root_domain \notin DOMAIN @ /\ id.company # <<>>
                THEN [k \in DOMAIN @ \cup {id.root_domain} |->
                        IF k = id.root_domain THEN id.company ELSE @[k]]
                ELSE @,
            !.root_domains_checked = @ \cup {id.root_domain}]

\* the writes of both loops to domains_checked / companies_checked
StatsAfterCount(stats, id) ==
    IF id.identifier = <<>> THEN stats
    ELSE [stats EXCEPT
            !.domains_checked = IF id.domain # <<>> THEN @ \cup {id.domain} ELSE @,
            !.companies_checked = IF id.company # <<>> THEN @ \cup {id.company} ELSE @]

\* counts[key] += 1 when key is non-empty
IncrIf(counts, key) == IF key # <<>> THEN DictIncr(counts, key) ELSE counts

\* the "traditional" counting of one delivery row (lines 83-101); the TAL counter is
\* incremented for every non-blank TAL cell
DeliveryTraditionalAfter(trad, drow, id) ==
    [company |-> IF mapping["delivery_company"] # NotAvailable
                 THEN IncrIf(trad.company, id.company) ELSE trad.company,
     tal |-> IF mapping["delivery_tal"] # NotAvailable
                /\ Strip(DictGet(drow, mapping["delivery_tal"], <<>>)) # <<>>
             THEN DictIncr(trad.tal, TalValue(drow, mapping["delivery_tal"]))
             ELSE trad.tal,
     domain |-> IncrIf(trad.domain, DomainValue(drow, mapping["delivery_domain"])),
     root_domain |-> IncrIf(trad.root_domain,
                            RootDomainOf(DomainValue(drow, mapping["delivery_domain"])))]

\* the four "traditional" values of one lead row (lines 135-151)
LeadTraditionalValues(lrow, id) ==
    [company |-> id.company,
     tal |-> TalValue(lrow, mapping["lead_tal"]),
     domain |-> DomainValue(lrow, mapping["lead_domain"]),
     root_domain |-> IF id.root_domain = <<>>
                     THEN RootDomainOf(DomainValue(lrow, mapping["lead_domain"]))
                     ELSE id.root_domain]

\* TraditionalTotal without the delivery count
TraditionalTotalLeadOnly(dtrad, ltrad, key) ==
    IF key # <<>> THEN DictGet(ltrad, key, 0) ELSE 0

\* delivery + lead count of key, 0 for an empty key (lines 175-182)
TraditionalTotal(dtrad, ltrad, key) ==
    IF key # <<>> THEN DictGet(dtrad, key, 0) + DictGet(ltrad, key, 0) ELSE 0

\* LeadTraditionalAfter counting a blank company too
LeadTraditionalAfterUnguarded(trad, vals) ==
    [company |-> DictIncr(trad.company, vals.company),
     tal |-> IncrIf(trad.tal, vals.tal),
     domain |-> IncrIf(trad.domain, vals.domain),
     root_domain |-> IncrIf(trad.root_domain, vals.root_domain)]

\* the lead-side traditional counters after one lead row (lines 153-169)
LeadTraditionalAfter(trad, vals) ==
    [company |-> IncrIf(trad.company, vals.company),
     tal |-> IncrIf(trad.tal, vals.tal),
     domain |-> IncrIf(trad.domain, vals.domain),
     root_domain |-> IncrIf(trad.root_domain, vals.root_domain)]

\* the four traditional totals of one lead row (lines 175-182)
TraditionalTotals(dt, lt, vals) ==
    [company |-> TraditionalTotal(dt.company, lt.company, vals.company),
     tal |-> TraditionalTotal(dt.tal, lt.tal, vals.tal),
     domain |-> TraditionalTotal(dt.domain, lt.domain, vals.domain),
     root_domain |-> TraditionalTotal(dt.root_domain, lt.root_domain, vals.root_domain)]

\* "(total/limit)"
Ratio(total, limit) == <<" ", "(">> \o IntToStr(total) \o <<"/">> \o IntToStr(limit) \o <<")">>

\* the primary violation message (lines 207-212)
PrimaryMessage(id, total_count, limit) ==
    IF id.root_domain # <<>>
    THEN <<"C", "P", "C", " ", "E", "x", "c", "e", "e", "d", "e", "d", ":", " ", "R", "o", "o", "t", " ", "D", "o", "m", "a", "i", "n", " ", "'">> \o id.root_domain \o <<"'">> \o Ratio(total_count, limit)
         \o (IF id.company # <<>> THEN <<" ", "-", " ">> \o id.company ELSE <<>>)
    ELSE <<"C", "P", "C", " ", "E", "x", "c", "e", "e", "d", "e", "d", ":", " ">> \o id.display_name \o Ratio(total_count, limit)

\* PrimaryExceeded with the comparison off by one
PrimaryExceededAtLimit(id, total_count, limit) == id.identifier # <<>> /\ total_count >= limit

\* the primary check: identifier set and its total over the limit (line 206)
PrimaryExceeded(id, total_count, limit) == id.identifier # <<>> /\ total_count > limit

\* TraditionalExceeded with the comparison off by one
TraditionalExceededAtLimit(val, total, limit) == val # <<>> /\ total >= limit

\* a traditional total over the limit (lines 217-224)
TraditionalExceeded(val, total, limit) == val # <<>> /\ total > limit

\* UnifiedTotal without the delivery prior
UnifiedTotalLeadOnly(dcounts, lcounts, identifier) ==
    IF identifier # <<>> THEN DictGet(lcounts, identifier, 0) ELSE 0

\* total_count: delivery + lead count of the identifier, 0 without identifier (line 172)
UnifiedTotal(dcounts, lcounts, identifier) ==
    IF identifier # <<>>
    THEN DictGet(dcounts, identifier, 0) + DictGet(lcounts, identifier, 0)
    ELSE 0

\* LeadViolations with the legacy messages added to the primary one
LeadViolationsUnsuppressed(id, vals, total_count, totals, limit) ==
    (IF PrimaryExceeded(id, total_count, limit)
     THEN << PrimaryMessage(id, total_count, limit) >>
     ELSE <<>>)
    \o (IF TraditionalExceeded(vals.company, totals.company, limit)
        THEN << <<"C", "P", "C", " ", "E", "x", "c", "e", "e", "d", "e", "d", " ", "b", "y", " ", "C", "o", "m", "p", "a", "n", "y", " ", "N", "a", "m", "e">> \o Ratio(totals.company, limit) >>
        ELSE <<>>)
    \o (IF TraditionalExceeded(vals.tal, totals.tal, limit)
        THEN << <<"C", "P", "C", " ", "E", "x", "c", "e", "e", "d", "e", "d", " ", "b", "y", " ", "T", "A", "L", " ", "C", "o", "m", "p", "a", "n", "y", " ", "N", "a", "m", "e">> \o Ratio(totals.tal, limit) >>
        ELSE <<>>)

\* the list "violations" of one lead row (lines 203-224)
LeadViolations(id, vals, total_count, totals, limit) ==
    IF PrimaryExceeded(id, total_count, limit)
    THEN << PrimaryMessage(id, total_count, limit) >>
    ELSE (IF TraditionalExceeded(vals.company, totals.company, limit)
          THEN << <<"C", "P", "C", " ", "E", "x", "c", "e", "e", "d", "e", "d", " ", "b", "y", " ", "C", "o", "m", "p", "a", "n", "y", " ", "N", "a", "m", "e">> \o Ratio(totals.company, limit) >>
          ELSE <<>>)
      \o (IF TraditionalExceeded(vals.tal, totals.tal, limit)
          THEN << <<"C", "P", "C", " ", "E", "x", "c", "e", "e", "d", "e", "d", " ", "b", "y", " ", "T", "A", "L", " ", "C", "o", "m", "p", "a", "n", "y", " ", "N", "a", "m", "e">> \o Ratio(totals.tal, limit) >>
          ELSE <<>>)
      \o (IF TraditionalExceeded(vals.root_domain, totals.root_domain, limit)
          THEN << <<"C", "P", "C", " ", "E", "x", "c", "e", "e", "d", "e", "d", " ", "b", "y", " ", "R", "o", "o", "t", " ", "D", "o", "m", "a", "i", "n", " ", "'">> \o vals.root_domain \o <<"'">>
                  \o Ratio(totals.root_domain, limit) >>
          ELSE IF TraditionalExceeded(vals.domain, totals.domain, limit)
          THEN << <<"C", "P", "C", " ", "E", "x", "c", "e", "e", "d", "e", "d", " ", "b", "y", " ", "E", "x", "a", "c", "t", " ", "D", "o", "m", "a", "i", "n">> \o Ratio(totals.domain, limit) >>
          ELSE <<>>)

\* the breakdown cell text (lines 188-194)
BreakdownInfo(id, total_count) ==
    id.display_name \o <<":", " ">> \o IntToStr(total_count)
    \o (IF id.root_domain # <<>> THEN <<" ", "(", "R", "o", "o", "t", " ", "d", "o", "m", "a", "i", "n", ":", " ">> \o id.root_domain \o <<")">>
        ELSE IF id.company # <<>> THEN <<" ", "(", "C", "o", "m", "p", "a", "n", "y", " ", "n", "a", "m", "e", "-", "b", "a", "s", "e", "d", ")">>
        ELSE <<>>)

\* a count cell: the number when the key is set, "" otherwise
CountCell(val, total) == IF val # <<>> THEN IntToStr(total) ELSE <<>>

\* the cells written for one lead row before the violation check (lines 184-200)
CpcCellsWritten(row, id, vals, total_count, totals) ==
    LET r1 == SetCell(row, "CPC by Root Domain Primary",
                      IF total_count > 0 THEN IntToStr(total_count) ELSE <<>>)
        r2 == IF id.identifier # <<>>
              THEN SetCell(r1, "CPC Breakdown", BreakdownInfo(id, total_count))
              ELSE r1
        r3 == SetCell(r2, "CPC by Company Name", CountCell(vals.company, totals.company))
        r4 == SetCell(r3, "CPC by TAL Company Name", CountCell(vals.tal, totals.tal))
        r5 == SetCell(r4, "CPC by Domain", CountCell(vals.domain, totals.domain))
    IN SetCell(r5, "CPC by Root Domain", CountCell(vals.root_domain, totals.root_domain))

\* the six columns ensured before the lead loop (lines 104-111)
CpcColumns == <<"CPC by Root Domain Primary", "CPC Breakdown", "CPC by Company Name",
                "CPC by TAL Company Name", "CPC by Domain", "CPC by Root Domain">>

RECURSIVE EnsureColumns(_, _)
EnsureColumns(row, names) ==
    IF names = <<>> THEN row
    ELSE EnsureColumns(ensure_col_in_ws(row, Head(names)), Tail(names))

EmptyTraditional == [company |-> <<>>, tal |-> <<>>, domain |-> <<>>, root_domain |-> <<>>]

\* one iteration of "for drow in delivery_data" (lines 69-101)
CpcDeliveryRow ==
    /\ pc = "cpc_delivery"
    /\ i <= Len(delivery_data)
    /\ \E id \in {get_company_identifier(delivery_data[i], mapping["delivery_company"],
                                         mapping["delivery_domain"])} :
          /\ delivery_counts' = IncrIf(delivery_counts, id.identifier)
          /\ cpc_stats' = StatsAfterCount(StatsAfterIdentifier(cpc_stats, id), id)
          /\ delivery_counts_traditional' =
                DeliveryTraditionalAfter(delivery_counts_traditional, delivery_data[i], id)
    /\ i' = i + 1
    /\ UNCHANGED <<pc, ws, inputVars, lead_counts, lead_counts_traditional, violations,
                   internalVars, checkVars>>

\* between the loops: the CPC columns are ensured, the lead counters created (lines 103-125)
CpcStartLeads ==
    /\ pc = "cpc_delivery"
    /\ i > Len(delivery_data)
    /\ ws' = [k \in DOMAIN ws |-> EnsureColumns(ws[k], CpcColumns)]
    /\ lead_counts' = <<>>
    /\ lead_counts_traditional' = EmptyTraditional
    /\ pc' = "cpc_lead"
    /\ i' = 1
    /\ UNCHANGED <<inputVars, delivery_counts, delivery_counts_traditional, cpc_stats,
                   violations, internalVars, checkVars>>

\* the worksheet row and statistics after the violation check (lines 226-238)
CpcVerdict(written, stats, vs) ==
    IF vs # <<>>
    THEN \E unique_violations \in SetOrders(vs) :
         \E comment \in {Join(<<";", " ">>, Take(unique_violations, 2))} :
            /\ ws' = [ws EXCEPT ![i] = disqualify_lead(written, ExtraCPC, comment)]
            /\ calls' = Append(calls, [row |-> i, reason |-> ExtraCPC, comment |-> comment])
            /\ cpc_stats' = [stats EXCEPT !.cpc_violations = @ + 1]
    ELSE /\ ws' = [ws EXCEPT ![i] = written]
         /\ cpc_stats' = stats
         /\ UNCHANGED calls

\* one iteration of "for idx, lrow in enumerate(lead_data, start=2)" (lines 128-238)
CpcLeadRow ==
    /\ pc = "cpc_lead"
    /\ i <= Len(lead_data)
    /\ \E id \in {get_company_identifier(lead_data[i], mapping["lead_company"],
                                         mapping["lead_domain"])} :
       \E vals \in {LeadTraditionalValues(lead_data[i], id)} :
       \E lc \in {IncrIf(lead_counts, id.identifier)} :
       \E lt \in {LeadTraditionalAfter(lead_counts_traditional, vals)} :
       \E total_count \in {UnifiedTotal(delivery_counts, lc, id.identifier)} :
       \E totals \in {TraditionalTotals(delivery_counts_traditional, lt, vals)} :
       \E vs \in {LeadViolations(id, vals, total_count, totals, cpc_limit)} :
          /\ lead_counts' = lc
          /\ lead_counts_traditional' = lt
          /\ delivery_counts' = IF id.identifier # <<>>
                                THEN DictTouch(delivery_counts, id.identifier)
                                ELSE delivery_counts
          /\ violations' = Append(violations, vs)
          /\ CpcVerdict(CpcCellsWritten(ws[i], id, vals, total_count, totals),
                        StatsAfterCount(StatsAfterIdentifier(cpc_stats, id), id), vs)
    /\ i' = i + 1
    /\ UNCHANGED <<pc, inputVars, delivery_counts_traditional, internalVars, phoneVars,
                   dupVars>>

\* "return self.stats" (line 240)
CpcReturn ==
    /\ pc = "cpc_lead"
    /\ i > Len(lead_data)
    /\ pc' = "done"
    /\ UNCHANGED <<i, ws, inputVars, cpcVars, checkVars>>


(***************************************************************************)
(* The external CPC pass on bounded inputs                                 *)
(***************************************************************************)
MaxLead == 3

MaxDelivery == 2

MaxLimit == 2

\* all lists over S of length at most n
SeqsUpTo(S, n) == UNION {[1..k -> S] : k \in 0..n}

\* a lead worksheet row before any check: the three writer cells empty
BlankRow == [h \in {StatusHeader, ReasonHeader, CommentHeader} |-> <<>>]

\* every role mapped / the domain roles unmapped
CpcMappings ==
    { [delivery_company |-> "Company", delivery_domain |-> "Domain", delivery_tal |-> "TAL",
       lead_company |-> "Company", lead_domain |-> "Domain", lead_tal |-> "TAL"],
      [delivery_company |-> "Company", delivery_domain |-> NotAvailable, delivery_tal |-> "TAL",
       lead_company |-> "Company", lead_domain |-> NotAvailable, lead_tal |-> "TAL"] }

EmptyCpcStats ==
    [cpc_violations |-> 0, companies_checked |-> {}, domains_checked |-> {},
     root_domains_checked |-> {}, domain_company_mapping |-> <<>>]

\* the CPC counter before run_domain_based_cpc_check
CpcIdle ==
    /\ delivery_counts = <<>>
    /\ delivery_counts_traditional = EmptyTraditional
    /\ lead_counts = <<>>
    /\ lead_counts_traditional = EmptyTraditional
    /\ cpc_stats = EmptyCpcStats
    /\ violations = <<>>
    /\ internal_counts = EmptyTraditional
    /\ internal_stats = [internal_cpc_violations |-> 0, internal_companies_checked |-> {},
                         internal_root_domains_checked |-> {}]
    /\ internal_violations = <<>>

\* the duplicate and phone checkers as constructed, no writer call made
ChecksIdle ==
    /\ calls = <<>>
    /\ args = <<>>
    /\ result = <<>>
    /\ phone_to_company = <<>>
    /\ delivery_phone_to_domain = <<>>
    /\ phone_stats = [phone_conflicts |-> 0, phone_conflict_details |-> <<>>]
    /\ seen_signatures = [emails |-> {}, linkedin |-> {}, name_domain_combinations |-> {}]
    /\ delivery_signatures = [emails |-> {}, email_permutations |-> {}, linkedin |-> {}]
    /\ lead_signatures = [emails |-> {}, linkedin |-> {}]
    /\ dup_stats = [duplicates_found |-> 0, internal_duplicates |-> 0,
                    permutation_errors |-> 0, duplicate_details |-> <<>>,
                    internal_duplicate_details |-> <<>>]

\* DomainBasedChecker(cpc_limit) constructed, run_domain_based_cpc_check entered
InitCPC ==
    /\ pc = "cpc_delivery"
    /\ mapping \in CpcMappings
    /\ delivery_data \in SeqsUpTo(CpcDeliveryRows, MaxDelivery)
    /\ lead_data \in SeqsUpTo(CpcLeadRows, MaxLead)
    /\ cpc_limit \in 1..MaxLimit
    /\ i = 1
    /\ ws = [k \in 1..Len(lead_data) |-> BlankRow]
    /\ CpcIdle
    /\ ChecksIdle

NextCPC == CpcDeliveryRow \/ CpcStartLeads \/ CpcLeadRow \/ CpcReturn

SpecCPC == InitCPC /\ [][NextCPC]_vars


(***************************************************************************)
(* Properties of the external CPC pass                                     *)
(***************************************************************************)
\* the lead rows the pass has flagged so far
FlaggedRows == {k \in 1..Len(violations) : violations[k] # <<>>}

\* identity of a lead / delivery row, as the pass resolves it
LeadId(k) ==
    get_company_identifier(lead_data[k], mapping["lead_company"],
                           mapping["lead_domain"]).identifier

DeliveryId(d) ==
    get_company_identifier(delivery_data[d], mapping["delivery_company"],
                           mapping["delivery_domain"]).identifier

\* all delivery and lead records resolve to one and the same (non-blank) identity
SingleIdentity ==
    \E id \in {LeadId(k) : k \in 1..Len(lead_data)} \cup
              {DeliveryId(d) : d \in 1..Len(delivery_data)} :
        /\ id # <<>>
        /\ \A k \in 1..Len(lead_data) : LeadId(k) = id
        /\ \A d \in 1..Len(delivery_data) : DeliveryId(d) = id

TotalOccurrences == Len(delivery_data) + Len(lead_data)

Max0(n) == IF n > 0 THEN n ELSE 0

\* C1 as stated: with a single identity appearing N times, exactly max(0, N - L)
\* lead rows are flagged once the pass has returned
C1_ExactlyNMinusL ==
    (pc = "done" /\ SingleIdentity) =>
        Cardinality(FlaggedRows) = Max0(TotalOccurrences - cpc_limit)

\* C1 amended: with a single identity, the flagged lead rows are exactly those whose
\* running total (delivery rows + lead rows so far, current row included) exceeds L;
\* once the pass has returned they number min(M, max(0, N - L)) for M lead rows
C1_CumulativeThreshold ==
    SingleIdentity =>
        /\ FlaggedRows = {k \in 1..Len(violations) : Len(delivery_data) + k > cpc_limit}
        /\ pc = "done" =>
             Cardinality(FlaggedRows) =
                Min({Len(lead_data), Max0(TotalOccurrences - cpc_limit)})

\* a finished single-identity pass with a delivery prior, a spared and a flagged lead row
C1_Witness ==
    /\ pc = "done"
    /\ SingleIdentity
    /\ Len(delivery_data) >= 1
    /\ FlaggedRows # {}
    /\ FlaggedRows # 1..Len(lead_data)

AcmeDelivery == [Company |-> <<"A", "c", "m", "e", " ", "I", "n", "c">>, Domain |-> <<"a", "c", "m", "e", ".", "c", "o", "m">>, TAL |-> <<>>]

AcmeLead == [Company |-> <<"A", "c", "m", "e">>, Domain |-> <<"a", "c", "m", "e", ".", "c", "o", "m">>, TAL |-> <<>>]

\* the scenario: one delivery record, three lead records, limit 2, every role mapped
AcmeScenario ==
    /\ delivery_data = <<AcmeDelivery>>
    /\ lead_data = <<AcmeLead, AcmeLead, AcmeLead>>
    /\ cpc_limit = 2
    /\ mapping["lead_domain"] # NotAvailable

\* C2 as stated: no violation on the first two lead rows, one violation with
\* total 4 on the third
C2_OnlyThirdRowFlagged ==
    (pc = "done" /\ AcmeScenario) =>
        /\ violations[1] = <<>>
        /\ violations[2] = <<>>
        /\ violations[3] = << <<"C", "P", "C", " ", "E", "x", "c", "e", "e", "d", "e", "d", ":", " ", "R", "o", "o", "t", " ", "D", "o", "m", "a", "i", "n", " ", "'", "a", "c", "m", "e", "'", " ", "(", "4", "/", "2", ")", " ", "-", " ", "a", "c", "m", "e">> >>
        /\ cpc_stats.cpc_violations = 1

\* C2 amended: in the scenario the first lead row (total 2) is not flagged, the second
\* (total 3) and the third (total 4) are flagged with one violation each
C2_SecondAndThirdRowFlagged ==
    (pc = "done" /\ AcmeScenario) =>
        /\ violations[1] = <<>>
        /\ violations[2] = << <<"C", "P", "C", " ", "E", "x", "c", "e", "e", "d", "e", "d", ":", " ", "R", "o", "o", "t", " ", "D", "o", "m", "a", "i", "n", " ", "'", "a", "c", "m", "e", "'", " ", "(", "3", "/", "2", ")", " ", "-", " ", "a", "c", "m", "e">> >>
        /\ violations[3] = << <<"C", "P", "C", " ", "E", "x", "c", "e", "e", "d", "e", "d", ":", " ", "R", "o", "o", "t", " ", "D", "o", "m", "a", "i", "n", " ", "'", "a", "c", "m", "e", "'", " ", "(", "4", "/", "2", ")", " ", "-", " ", "a", "c", "m", "e">> >>
        /\ cpc_stats.cpc_violations = 2
        /\ ws[1]["CPC by Root Domain Primary"] = <<"2">>
        /\ ws[1][StatusHeader] = <<>>
        /\ ws[2][StatusHeader] = Disqualified
        /\ ws[3][StatusHeader] = Disqualified
        /\ ws[3][CommentHeader] = <<"C", "P", "C", " ", "E", "x", "c", "e", "e", "d", "e", "d", ":", " ", "R", "o", "o", "t", " ", "D", "o", "m", "a", "i", "n", " ", "'", "a", "c", "m", "e", "'", " ", "(", "4", "/", "2", ")", " ", "-", " ", "a", "c", "m", "e">>

\* the scenario has run to the end
C2_Witness == pc = "done" /\ AcmeScenario

\* number of rows of a list whose key equals key
CountRows(rows, KeyOf(_), key) == Cardinality({n \in 1..Len(rows) : KeyOf(rows[n]) = key})

\* running total of a key of lead row k: delivery rows with the key + lead rows up to k
RunningTotal(DeliveryKey(_), LeadKey(_), k) ==
    LET key == LeadKey(lead_data[k])
    IN IF key = <<>> THEN 0
       ELSE CountRows(delivery_data, DeliveryKey, key)
            + CountRows(SubSeq(lead_data, 1, k), LeadKey, key)

\* keys of a row, read from its cells
RowCompany(row, col) ==
    IF col = NotAvailable \/ Strip(DictGet(row, col, <<>>)) = <<>> THEN <<>>
    ELSE NormalizeCompany(Strip(DictGet(row, col, <<>>)))

RowDomain(row, col) ==
    IF col = NotAvailable THEN <<>> ELSE Lower(Strip(DictGet(row, col, <<>>)))

RowRoot(row, col) == ExtractRootDomain(RowDomain(row, col))

\* the unified identity of a row as a tagged value
RowIdentity(row, company_col, domain_col) ==
    IF RowRoot(row, domain_col) # <<>> THEN <<"RootDomain", RowRoot(row, domain_col)>>
    ELSE IF RowCompany(row, company_col) # <<>> THEN <<"Company", RowCompany(row, company_col)>>
    ELSE <<>>

UnifiedRunningTotal(k) ==
    RunningTotal(LAMBDA r : RowIdentity(r, mapping["delivery_company"], mapping["delivery_domain"]),
                 LAMBDA r : RowIdentity(r, mapping["lead_company"], mapping["lead_domain"]), k)

CompanyRunningTotal(k) ==
    RunningTotal(LAMBDA r : RowCompany(r, mapping["delivery_company"]),
                 LAMBDA r : RowCompany(r, mapping["lead_company"]), k)

TalRunningTotal(k) ==
    RunningTotal(LAMBDA r : RowCompany(r, mapping["delivery_tal"]),
                 LAMBDA r : RowCompany(r, mapping["lead_tal"]), k)

DomainRunningTotal(k) ==
    RunningTotal(LAMBDA r : RowDomain(r, mapping["delivery_domain"]),
                 LAMBDA r : RowDomain(r, mapping["lead_domain"]), k)

RootRunningTotal(k) ==
    RunningTotal(LAMBDA r : RowRoot(r, mapping["delivery_domain"]),
                 LAMBDA r : RowRoot(r, mapping["lead_domain"]), k)

\* C3 as stated: a lead row whose identity's running total is at most the limit
\* is never flagged by the CPC pass
C3_WithinLimitNeverFlagged ==
    \A k \in 1..Len(violations) :
        (LeadId(k) # <<>> /\ UnifiedRunningTotal(k) <= cpc_limit) => violations[k] = <<>>

\* C3 amended: a lead row is flagged exactly when the running total of its identity,
\* or of its company, TAL company, root domain or exact domain taken alone, exceeds
\* the limit; a row with all five running totals within the limit is never flagged
C3_FlaggedIffSomeTotalExceeds ==
    \A k \in 1..Len(violations) :
        violations[k] # <<>> <=>
            \/ UnifiedRunningTotal(k) > cpc_limit
            \/ CompanyRunningTotal(k) > cpc_limit
            \/ TalRunningTotal(k) > cpc_limit
            \/ RootRunningTotal(k) > cpc_limit
            \/ DomainRunningTotal(k) > cpc_limit

\* a row within its identity's limit flagged for a legacy total, and a spared row
C3_Witness ==
    /\ \E k \in 1..Len(violations) :
            /\ LeadId(k) # <<>>
            /\ UnifiedRunningTotal(k) <= cpc_limit
            /\ violations[k] # <<>>
    /\ \E k \in 1..Len(violations) : UnifiedRunningTotal(k) >= 1 /\ violations[k] = <<>>

\* the rows of the pass with a mapped, non-blank domain cell
HasDomain(row, col) == col # NotAvailable /\ Strip(DictGet(row, col, <<>>)) # <<>>

\* C4: a record whose domain role is mapped and non-blank resolves to a root-domain
\* identity, never a company identity; its unified counter counts exactly the rows
\* with the same root domain, whatever their company, and no row resolved by company
\* name shares that counter
C4_RootDomainPriority ==
    /\ \A d \in 1..Len(delivery_data) :
          HasDomain(delivery_data[d], mapping["delivery_domain"]) =>
              /\ StartsWith(DeliveryId(d), RootDomainPrefix)
              /\ ~StartsWith(DeliveryId(d), CompanyPrefix)
    /\ \A k \in 1..Len(lead_data) :
          HasDomain(lead_data[k], mapping["lead_domain"]) =>
              /\ StartsWith(LeadId(k), RootDomainPrefix)
              /\ ~StartsWith(LeadId(k), CompanyPrefix)
    /\ \A k \in 1..Len(violations) :
          HasDomain(lead_data[k], mapping["lead_domain"]) =>
              /\ ws[k]["CPC by Root Domain Primary"] = IntToStr(RootRunningTotal(k))
              /\ \A j \in 1..Len(violations) :
                    ~HasDomain(lead_data[j], mapping["lead_domain"]) =>
                        /\ LeadId(j) # LeadId(k)
                        /\ ws[j]["CPC by Root Domain Primary"] =
                             (IF UnifiedRunningTotal(j) > 0
                              THEN IntToStr(UnifiedRunningTotal(j)) ELSE <<>>)

\* processed rows with one normalized company and two root domains, and a company-resolved row
C4_Witness ==
    /\ \E j, k \in 1..Len(violations) :
          /\ HasDomain(lead_data[j], mapping["lead_domain"])
          /\ HasDomain(lead_data[k], mapping["lead_domain"])
          /\ RowCompany(lead_data[j], mapping["lead_company"])
                = RowCompany(lead_data[k], mapping["lead_company"])
          /\ RowCompany(lead_data[j], mapping["lead_company"]) # <<>>
          /\ RowRoot(lead_data[j], mapping["lead_domain"])
                # RowRoot(lead_data[k], mapping["lead_domain"])
    /\ \E j \in 1..Len(violations) :
          /\ ~HasDomain(lead_data[j], mapping["lead_domain"])
          /\ mapping["lead_domain"] # NotAvailable
          /\ LeadId(j) # <<>>


(***************************************************************************)
(* The Violation Writer called repeatedly on one row                       *)
(***************************************************************************)
MaxCalls == 3

\* reasons the checks pass to disqualify_lead
WriterReasons == {ExtraCPC, <<"I", "n", "t", "e", "r", "n", "a", "l", " ", "D", "u", "p", "l", "i", "c", "a", "t", "e">>}

\* comment messages: plain ones, one contained in another, one with a leading blank
WriterComments == {<<"a">>, <<"b">>, <<"a", "b">>, <<" ", "a">>}

InitWriter ==
    /\ pc = "writer"
    /\ mapping = <<>>
    /\ delivery_data = <<>>
    /\ \E status \in {<<>>, Disqualified, <<"Q", "u", "a", "l", "i", "f", "i", "e", "d">>},
          reason \in {<<>>, ExtraCPC},
          comment \in {<<>>, <<"b">>, <<" ", "b", " ">>} :
            lead_data = << (StatusHeader :> status) @@ (ReasonHeader :> reason)
                           @@ (CommentHeader :> comment) >>
    /\ ws = lead_data
    /\ cpc_limit = 1
    /\ i = 1
    /\ CpcIdle
    /\ ChecksIdle

\* a check flags row i: disqualify_lead(ws, i, ..., reason, comment)
DisqualifyCall ==
    /\ pc = "writer"
    /\ Len(calls) < MaxCalls
    /\ \E reason \in WriterReasons, comment \in WriterComments :
          /\ ws' = [ws EXCEPT ![i] = disqualify_lead(@, reason, comment)]
          /\ calls' = Append(calls, [row |-> i, reason |-> reason, comment |-> comment])
    /\ UNCHANGED <<pc, i, inputVars, cpcVars, phoneVars, dupVars>>

NextWriter == DisqualifyCall

SpecWriter == InitWriter /\ [][NextWriter]_vars


C7_WrittenOnlyIfUnset ==
    (pc = "writer" /\ calls # <<>>) =>
        /\ lead_data[1][StatusHeader] # <<>> =>
                ws[1][StatusHeader] = lead_data[1][StatusHeader]
        /\ lead_data[1][ReasonHeader] # <<>> =>
                ws[1][ReasonHeader] = lead_data[1][ReasonHeader]
        /\ lead_data[1][StatusHeader] = <<>> => ws[1][StatusHeader] = Disqualified
        /\ lead_data[1][ReasonHeader] = <<>> => ws[1][ReasonHeader] = calls[1].reason

\* a row that started "Qualified" without reason, flagged twice for different reasons
C7_Witness ==
    /\ pc = "writer"
    /\ Len(calls) >= 2
    /\ calls[1].reason # calls[2].reason
    /\ lead_data[1][StatusHeader] = <<"Q", "u", "a", "l", "i", "f", "i", "e", "d">>
    /\ lead_data[1][ReasonHeader] = <<>>
    /\ ws[1][StatusHeader] = <<"Q", "u", "a", "l", "i", "f", "i", "e", "d">>
    /\ ws[1][ReasonHeader] = calls[1].reason

IgnoredDomains == {<<>>, <<"n", "o", "n", "e">>, <<"n", "u", "l", "l">>, <<"n", "/", "a">>}

\* str(row.get(col, "")).strip()
CellOf(row, col) == Strip(DictGet(row, col, <<>>))

\* the lowercased domain cell, "" when unmapped or an ignored value
PhoneDomain(row, domain_col) ==
    IF domain_col # NotAvailable /\ Lower(CellOf(row, domain_col)) \notin IgnoredDomains
    THEN Lower(CellOf(row, domain_col))
    ELSE <<>>

\* the return statement of InternalPhoneChecker.get_company_identifier (line 296)
PhoneIdentifier(root_domain, domain, company) ==
    IF root_domain # <<>> THEN root_domain
    ELSE IF domain # <<>> THEN domain
    ELSE IF company # <<>> THEN Lower(company)
    ELSE <<>>

\* InternalPhoneChecker.get_company_identifier(row, company_col, domain_col)
phone_get_company_identifier(row, company_col, domain_col) ==
    PhoneIdentifier(RootDomainOf(PhoneDomain(row, domain_col)),
                    PhoneDomain(row, domain_col),
                    TalValue(row, company_col))

\* SimplePhoneChecker.get_domain_identifier(row, company_col, domain_col): the
\* company fallback is the raw cell, lowercased
get_domain_identifier(row, company_col, domain_col) ==
    PhoneIdentifier(RootDomainOf(PhoneDomain(row, domain_col)),
                    PhoneDomain(row, domain_col),
                    IF company_col # NotAvailable THEN CellOf(row, company_col) ELSE <<>>)

InternalPhoneColumn == "Internal Phone Conflicts"

PhoneColumn == "Phone Conflicts"

\* the conflict message of the internal check (lines 335-340)
InternalConflictMsg(current_root, existing_info, existing_root) ==
    <<"P", "h", "o", "n", "e", " ", "u", "s", "e", "d", " ", "f", "o", "r", " ">> \o existing_info.company
    \o (IF current_root # <<>> /\ existing_root # <<>>
        THEN <<" ", "(", "r", "o", "o", "t", ":", " ">> \o existing_root \o <<")">>
        ELSE IF existing_info.domain # <<>> THEN <<" ", "(">> \o existing_info.domain \o <<")">>
        ELSE <<>>)
    \o <<" ", "a", "t", " ", "r", "o", "w", " ">> \o IntToStr(existing_info.row)

\* a later occurrence of phone under another identifier (lines 327-358)
InternalPhoneConflict(phone, row, existing_info) ==
    \E current_root \in {RootDomainOf(CellOf(row, mapping["lead_domain"]))},
       existing_root \in {RootDomainOf(existing_info.domain)} :
        /\ ws' = [ws EXCEPT ![i][InternalPhoneColumn] =
                        InternalConflictMsg(current_root, existing_info, existing_root)]
        /\ phone_stats' =
             [phone_conflicts |-> phone_stats.phone_conflicts + 1,
              phone_conflict_details |->
                 Append(phone_stats.phone_conflict_details,
                        [row |-> i + 1, phone |-> phone,
                         current_company |-> CellOf(row, mapping["lead_company"]),
                         current_domain |-> CellOf(row, mapping["lead_domain"]),
                         current_root_domain |-> current_root,
                         conflicting_company |-> existing_info.company,
                         conflicting_domain |-> existing_info.domain,
                         conflicting_root_domain |-> existing_root,
                         conflicting_row |-> existing_info.row,
                         conflict_message |->
                            InternalConflictMsg(current_root, existing_info,
                                                existing_root)])]

\* the loop of run_internal_phone_check storing the latest row of a phone
PhoneIntRowLastSeen ==
    /\ pc = "phone_int"
    /\ mapping["lead_phone"] # NotAvailable
    /\ i <= Len(lead_data)
    /\ \E phone \in {normalize_phone(DictGet(lead_data[i], mapping["lead_phone"], <<>>))},
          company_identifier \in {phone_get_company_identifier(lead_data[i],
                                     mapping["lead_company"], mapping["lead_domain"])} :
          IF phone = <<>> \/ company_identifier = <<>>
          THEN UNCHANGED <<ws, phone_to_company, phone_stats>>
          ELSE /\ IF /\ phone \in DOMAIN phone_to_company
                     /\ phone_to_company[phone].identifier # company_identifier
                  THEN InternalPhoneConflict(phone, lead_data[i], phone_to_company[phone])
                  ELSE UNCHANGED <<ws, phone_stats>>
               /\ phone_to_company' =
                     [p \in DOMAIN phone_to_company \cup {phone} |->
                        IF p = phone
                        THEN [identifier |-> company_identifier,
                              company |-> CellOf(lead_data[i], mapping["lead_company"]),
                              domain |-> CellOf(lead_data[i], mapping["lead_domain"]),
                              row |-> i + 1]
                        ELSE phone_to_company[p]]
    /\ i' = i + 1
    /\ UNCHANGED <<pc, inputVars, cpcVars, calls, delivery_phone_to_domain, dupVars>>

\* one iteration of "for idx, row in enumerate(lead_data, start=2)" (lines 307-365)
PhoneIntRow ==
    /\ pc = "phone_int"
    /\ mapping["lead_phone"] # NotAvailable
    /\ i <= Len(lead_data)
    /\ \E phone \in {normalize_phone(DictGet(lead_data[i], mapping["lead_phone"], <<>>))},
          company_identifier \in {phone_get_company_identifier(lead_data[i],
                                     mapping["lead_company"], mapping["lead_domain"])} :
          IF phone = <<>> \/ company_identifier = <<>>
          THEN UNCHANGED <<ws, phone_to_company, phone_stats>>
          ELSE IF phone \in DOMAIN phone_to_company
          THEN /\ IF phone_to_company[phone].identifier # company_identifier
                  THEN InternalPhoneConflict(phone, lead_data[i], phone_to_company[phone])
                  ELSE UNCHANGED <<ws, phone_stats>>
               /\ UNCHANGED phone_to_company
          ELSE /\ phone_to_company' =
                     (phone :> [identifier |-> company_identifier,
                                company |-> CellOf(lead_data[i], mapping["lead_company"]),
                                domain |-> CellOf(lead_data[i], mapping["lead_domain"]),
                                row |-> i + 1])
                     @@ phone_to_company
               /\ UNCHANGED <<ws, phone_stats>>
    /\ i' = i + 1
    /\ UNCHANGED <<pc, inputVars, cpcVars, calls, delivery_phone_to_domain, dupVars>>

\* "return self.stats": at once when the phone role is unmapped (lines 301-302, 367)
PhoneIntReturn ==
    /\ pc = "phone_int"
    /\ mapping["lead_phone"] = NotAvailable \/ i > Len(lead_data)
    /\ pc' = "done"
    /\ UNCHANGED <<i, ws, inputVars, cpcVars, checkVars>>

\* the conflict message of the external check (lines 89-96)
ExternalConflictMsg(delivery_info) ==
    <<"P", "h", "o", "n", "e", " ", "u", "s", "e", "d", " ", "f", "o", "r", " ">> \o delivery_info.company
    \o (IF delivery_info.domain # <<>> THEN <<" ", "(">> \o delivery_info.domain \o <<")">>
        ELSE <<>>)
    \o <<" ", "i", "n", " ", "d", "e", "l", "i", "v", "e", "r", "y", " ", "f", "i", "l", "e">>

\* str(row.get(col, "")).strip() if col != "Not Available" else ""
MappedCellOf(row, col) == IF col # NotAvailable THEN CellOf(row, col) ELSE <<>>

\* the loop of build_delivery_phone_map storing the last occurrence of a phone
PhoneBuildRowLast ==
    /\ pc = "phone_build"
    /\ mapping["delivery_phone"] # NotAvailable
    /\ i <= Len(delivery_data)
    /\ \E phone \in {normalize_phone(DictGet(delivery_data[i], mapping["delivery_phone"],
                                             <<>>))},
          identifier \in {get_domain_identifier(delivery_data[i],
                             mapping["delivery_company"], mapping["delivery_domain"])} :
          delivery_phone_to_domain' =
             IF phone # <<>> /\ identifier # <<>>
             THEN (phone :> [identifier |-> identifier,
                             company |-> MappedCellOf(delivery_data[i],
                                                      mapping["delivery_company"]),
                             domain |-> MappedCellOf(delivery_data[i],
                                                     mapping["delivery_domain"])])
                  @@ delivery_phone_to_domain
             ELSE delivery_phone_to_domain
    /\ i' = i + 1
    /\ UNCHANGED <<pc, ws, inputVars, cpcVars, calls, phone_to_company, phone_stats, dupVars>>

\* one iteration of "for row in delivery_data" of build_delivery_phone_map (lines 45-58)
PhoneBuildRow ==
    /\ pc = "phone_build"
    /\ mapping["delivery_phone"] # NotAvailable
    /\ i <= Len(delivery_data)
    /\ \E phone \in {normalize_phone(DictGet(delivery_data[i], mapping["delivery_phone"],
                                             <<>>))},
          identifier \in {get_domain_identifier(delivery_data[i],
                             mapping["delivery_company"], mapping["delivery_domain"])} :
          delivery_phone_to_domain' =
             IF phone # <<>> /\ identifier # <<>> /\ phone \notin DOMAIN delivery_phone_to_domain
             THEN (phone :> [identifier |-> identifier,
                             company |-> MappedCellOf(delivery_data[i],
                                                      mapping["delivery_company"]),
                             domain |-> MappedCellOf(delivery_data[i],
                                                     mapping["delivery_domain"])])
                  @@ delivery_phone_to_domain
             ELSE delivery_phone_to_domain
    /\ i' = i + 1
    /\ UNCHANGED <<pc, ws, inputVars, cpcVars, calls, phone_to_company, phone_stats, dupVars>>

\* build_delivery_phone_map returns, check_phone_conflicts is called
PhoneBuildReturn ==
    /\ pc = "phone_build"
    /\ mapping["delivery_phone"] = NotAvailable \/ i > Len(delivery_data)
    /\ pc' = "phone_check"
    /\ i' = 1
    /\ UNCHANGED <<ws, inputVars, cpcVars, checkVars>>

\* a lead phone used in delivery under another identifier, the row disqualified as well
ExternalPhoneConflictDisqualifying(phone, row, delivery_info) ==
    /\ ws' = [ws EXCEPT ![i][PhoneColumn] = ExternalConflictMsg(delivery_info),
                        ![i][StatusHeader] = Disqualified]
    /\ phone_stats' = [phone_stats EXCEPT !.phone_conflicts = @ + 1]

\* a lead phone used in delivery under another identifier (lines 81-111)
ExternalPhoneConflict(phone, row, delivery_info) ==
    /\ ws' = [ws EXCEPT ![i][PhoneColumn] = ExternalConflictMsg(delivery_info)]
    /\ phone_stats' =
         [phone_conflicts |-> phone_stats.phone_conflicts + 1,
          phone_conflict_details |->
             Append(phone_stats.phone_conflict_details,
                    [row |-> i + 1, phone |-> phone,
                     lead_company |-> MappedCellOf(row, mapping["lead_company"]),
                     lead_domain |-> MappedCellOf(row, mapping["lead_domain"]),
                     delivery_company |-> delivery_info.company,
                     delivery_domain |-> delivery_info.domain,
                     conflict_message |-> ExternalConflictMsg(delivery_info)])]

\* one iteration of "for idx, row in enumerate(lead_data, start=2)" of
\* check_phone_conflicts (lines 65-111)
PhoneCheckRow ==
    /\ pc = "phone_check"
    /\ mapping["lead_phone"] # NotAvailable
    /\ i <= Len(lead_data)
    /\ \E phone \in {normalize_phone(DictGet(lead_data[i], mapping["lead_phone"], <<>>))},
          lead_identifier \in {get_domain_identifier(lead_data[i],
                                  mapping["lead_company"], mapping["lead_domain"])} :
          IF /\ phone # <<>>
             /\ lead_identifier # <<>>
             /\ phone \in DOMAIN delivery_phone_to_domain
             /\ delivery_phone_to_domain[phone].identifier # lead_identifier
          THEN ExternalPhoneConflict(phone, lead_data[i], delivery_phone_to_domain[phone])
          ELSE UNCHANGED <<ws, phone_stats>>
    /\ i' = i + 1
    /\ UNCHANGED <<pc, inputVars, cpcVars, calls, phone_to_company,
                   delivery_phone_to_domain, dupVars>>

\* check_phone_conflicts returns: at once when the phone role is unmapped
PhoneCheckReturn ==
    /\ pc = "phone_check"
    /\ mapping["lead_phone"] = NotAvailable \/ i > Len(lead_data)
    /\ pc' = "done"
    /\ UNCHANGED <<i, ws, inputVars, cpcVars, checkVars>>


(***************************************************************************)
(* Permutation Generator: utils/email_utils.py                             *)
(***************************************************************************)
\* the titles, ranks, degrees and generational suffixes, in source order
IGNORE_SUFFIXES == {
    <<"d", "r">>,
    <<"d", "r", ".">>,
    <<"m", "r">>,
    <<"m", "r", ".">>,
    <<"m", "s">>,
    <<"m", "s", ".">>,
    <<"m", "r", "s">>,
    <<"m", "r", "s", ".">>,
    <<"p", "r", "o", "f">>,
    <<"p", "r", "o", "f", ".">>,
    <<"s", "i", "r">>,
    <<"h", "o", "n">>,
    <<"h", "o", "n", ".">>,
    <<"r", "e", "v">>,
    <<"r", "e", "v", ".">>,
    <<"f", "r">>,
    <<"f", "r", ".">>,
    <<"c", "a", "p", "t">>,
    <<"c", "a", "p", "t", ".">>,
    <<"c", "a", "p", "t", "a", "i", "n">>,
    <<"c", "o", "l">>,
    <<"c", "o", "l", ".">>,
    <<"c", "o", "l", "o", "n", "e", "l">>,
    <<"m", "a", "j">>,
    <<"m", "a", "j", ".">>,
    <<"l", "t">>,
    <<"l", "t", ".">>,
    <<"l", "i", "e", "u", "t", "e", "n", "a", "n", "t">>,
    <<"s", "g", "t">>,
    <<"s", "g", "t", ".">>,
    <<"s", "e", "r", "g", "e", "a", "n", "t">>,
    <<"p", "v", "t">>,
    <<"p", "v", "t", ".">>,
    <<"p", "r", "i", "v", "a", "t", "e">>,
    <<"g", "e", "n", "e", "r", "a", "l">>,
    <<"a", "d", "m", "i", "r", "a", "l">>,
    <<"c", "o", "m", "m", "a", "n", "d", "e", "r">>,
    <<"c", "o", "r", "p", "o", "r", "a", "l">>,
    <<"c", "p", "l">>,
    <<"c", "p", "l", ".">>,
    <<"m", "i", "n", "i", "s", "t", "e", "r">>,
    <<"a", "r", "c", "h", "b", "i", "s", "h", "o", "p">>,
    <<"r", "a", "b", "b", "i">>,
    <<"b", "r", "o", "t", "h", "e", "r">>,
    <<"s", "i", "s", "t", "e", "r">>,
    <<"f", "a", "t", "h", "e", "r">>,
    <<"m", "o", "t", "h", "e", "r">>,
    <<"c", "h", "a", "n", "c", "e", "l", "l", "o", "r">>,
    <<"p", "r", "i", "n", "c", "i", "p", "a", "l">>,
    <<"d", "i", "r", "e", "c", "t", "o", "r">>,
    <<"p", "r", "e", "s", "i", "d", "e", "n", "t">>,
    <<"c", "e", "o">>,
    <<"c", "f", "o">>,
    <<"c", "t", "o">>,
    <<"c", "m", "o">>,
    <<"v", "p">>,
    <<"s", "v", "p">>,
    <<"e", "v", "p">>,
    <<"c", "h", "a", "i", "r">>,
    <<"c", "h", "a", "i", "r", "m", "a", "n">>,
    <<"c", "h", "a", "i", "r", "w", "o", "m", "a", "n">>,
    <<"r", "e", "t">>,
    <<"r", "e", "t", ".">>,
    <<"r", "e", "t", "i", "r", "e", "d">>,
    <<"e", "m", "e", "r", "i", "t", "u", "s">>,
    <<"j", "r">>,
    <<"j", "r", ".">>,
    <<"s", "r">>,
    <<"s", "r", ".">>,
    <<"j", "u", "n", "i", "o", "r">>,
    <<"s", "e", "n", "i", "o", "r">>,
    <<"i", "i">>,
    <<"i", "i", "i">>,
    <<"i", "v">>,
    <<"v">>,
    <<"v", "i">>,
    <<"2", "n", "d">>,
    <<"3", "r", "d">>,
    <<"4", "t", "h">>,
    <<"5", "t", "h">>,
    <<"m", "b", "a">>,
    <<"p", "h", "d">>,
    <<"m", "s", "c">>,
    <<"b", "s", "c">>,
    <<"b", "a">>,
    <<"m", "a">>,
    <<"m", "t", "e", "c", "h">>,
    <<"b", "t", "e", "c", "h">>,
    <<"j", "d">>,
    <<"e", "d", ".", "d">>,
    <<"c", "f", "a">>,
    <<"c", "p", "a">>,
    <<"a", "c", "c", "a">>,
    <<"c", "a">>,
    <<"c", "m", "a">>,
    <<"c", "f", "p">>,
    <<"f", "r", "m", "s">>,
    <<"p", "m", "p">>,
    <<"s", "i", "x", "s", "i", "g", "m", "a">>,
    <<"s", "i", "x">>,
    <<"s", "i", "g", "m", "a">>,
    <<"l", "s", "s", "b", "b">>,
    <<"l", "s", "s", "g", "b">>,
    <<"l", "e", "a", "n">>,
    <<"b", "l", "a", "c", "k", "b", "e", "l", "t">>,
    <<"r", "n">>,
    <<"m", "d">>,
    <<"m", "b", "b", "s">>,
    <<"d", "d", "s">>,
    <<"d", "m", "d">>,
    <<"d", "o">>,
    <<"b", "p", "h", "a", "r", "m">>,
    <<"m", "p", "h">>,
    <<"s", "h", "r", "m", "p">>,
    <<"p", "h", "r">>,
    <<"g", "p", "h", "r">>,
    <<"s", "p", "h", "r">>,
    <<"c", "c", "m", "p">>,
    <<"c", "p", "c">>,
    <<"c", "p", "c", "c">>,
    <<"a", "w", "s">>,
    <<"g", "c", "p">>,
    <<"c", "c", "n", "a">>,
    <<"m", "c", "s", "a">>,
    <<"o", "c", "p">>,
    <<"m", "c", "p">>,
    <<"c", "o", "m", "p", "t", "i", "a">>,
    <<"a", "z", "u", "r", "e">>,
    <<"e", "s", "q">>,
    <<"l", "l", "b">>,
    <<"l", "l", "m">>,
    <<"i", "t", "i", "l">>,
    <<"i", "t", "l">>,
    <<"i", "t", "i">>,
    <<"c", "i", "s", "s", "p">>,
    <<"c", "i", "s", "o">>,
    <<"c", "i", "s", "m">>,
    <<"c", "r", "i", "s">>,
    <<"b", "m", "s">>,
    <<"f", "l", "m", "i">>,
    <<"f", "l", "m", "i", ".">>,
    <<"h", "i", "a">>,
    <<"h", "i", "a", ".">>,
    <<"m", "h", "p">>,
    <<"m", "h", "p", ".">>,
    <<"a", "c", "s">>,
    <<"a", "c", "s", ".">>,
    <<"c", "p", "c", "u">>,
    <<"c", "p", "c", "u", ".">>,
    <<"c", "s", "m">>,
    <<"c", "s", "m", ".">>,
    <<"g", "a", "i", "c", "d">>,
    <<"g", "a", "i", "c", "d", ".">>,
    <<"c", "m", "a", "i", "c", "d">>,
    <<"c", "m", "a", "i", "c", "d", ".">>,
    <<"f", "c", "i", "p", "d">>,
    <<"f", "c", "i", "p", "d", ".">>,
    <<"c", "i", "p", "d">>,
    <<"c", "i", "p", "d", ".">>,
    <<"f", "c", "p", "d">>,
    <<"f", "c", "p", "d", ".">>,
    <<"f", "c", "p">>,
    <<"f", "c", "p", ".">>,
    <<"f", "c", "a">>,
    <<"f", "c", "a", ".">>,
    <<"f", "c", "m", "a">>,
    <<"f", "c", "m", "a", ".">>,
    <<"f", "c", "p", "a">>,
    <<"f", "c", "p", "a", ".">>,
    <<"f", "b", "c", "s">>,
    <<"f", "b", "c", "s", ".">> }

\* the characters kept by re.sub(r"[^a-z0-9._-]", "", s)
NameChars == Range(LowerLetters) \cup DigitSet \cup {".", "_", "-"}

\* re.sub(r"[^a-z0-9._-]", "", s)
CleanToken(s) == SelectSeq(s, LAMBDA c : c \in NameChars)

\* the ASCII characters of the names, the others being dropped by strip_unicode
AsciiSet == AlnumSet \cup {" ", ".", "_", "-", "'", "(", ")", "#", "@", ","}

\* strip_unicode(text) on a text without umlauts: non-ASCII characters are dropped
strip_unicode(text) == SelectSeq(text, LAMBDA c : c \in AsciiSet)

\* extract_primary_first_name(name): the text before the first "(", stripped
extract_primary_first_name(name) ==
    LET ks == {k \in 1..Len(name) : name[k] = "("}
    IN IF ks = {} THEN Strip(name)
       ELSE IF Min(ks) > 1 THEN Strip(SubSeq(name, 1, Min(ks) - 1))
       ELSE Strip(name)

\* the separators of tokenize_name: whitespace, hyphen, period, apostrophe, underscore
TokenSeparators == {" ", "-", ".", "'", "_"}

\* re.split(allowed_separators, s) without the empty pieces
RECURSIVE SplitTokens(_)
SplitTokens(s) ==
    LET ks == {k \in 1..Len(s) : s[k] \in TokenSeparators}
    IN IF ks = {} THEN (IF s = <<>> THEN <<>> ELSE <<s>>)
       ELSE (IF Min(ks) > 1 THEN <<SubSeq(s, 1, Min(ks) - 1)>> ELSE <<>>)
            \o SplitTokens(SubSeq(s, Min(ks) + 1, Len(s)))

\* the elements of a list of strs, cleaned, the empty results dropped
RECURSIVE CleanedTokens(_)
CleanedTokens(raw_tokens) ==
    IF raw_tokens = <<>> THEN <<>>
    ELSE (IF strip_unicode(CleanToken(Lower(Head(raw_tokens)))) # <<>>
          THEN << strip_unicode(CleanToken(Lower(Head(raw_tokens)))) >>
          ELSE <<>>)
         \o CleanedTokens(Tail(raw_tokens))

\* tokenize_name(name)
tokenize_name(name) ==
    IF name = <<>> THEN <<>> ELSE CleanedTokens(SplitTokens(Strip(name)))

\* str.rstrip(".")
RStripDots(s) ==
    IF \A k \in 1..Len(s) : s[k] = "." THEN <<>>
    ELSE SubSeq(s, 1, Max({k \in 1..Len(s) : s[k] # "."}))

\* the first-name tokens that are no title or suffix (lines 113-116)
ValidFirstTokens(first_tokens) ==
    SelectSeq(first_tokens, LAMBDA token : RStripDots(Lower(token)) \notin IGNORE_SUFFIXES)

\* restructure_compound_names(first_name, last_name): the pair (first, last)
restructure_compound_names(first_name, last_name) ==
    IF first_name = <<>> \/ last_name = <<>> THEN <<first_name, last_name>>
    ELSE IF Len(SplitWs(first_name)) > 1 /\ ValidFirstTokens(SplitWs(first_name)) # <<>>
    THEN << Head(ValidFirstTokens(SplitWs(first_name))),
            Join(<<" ">>, Tail(ValidFirstTokens(SplitWs(first_name))) \o SplitWs(last_name)) >>
    ELSE << Strip(first_name), Strip(last_name) >>

\* f"{a}{sep}{b}@{domain}"
Pattern(a, sep, b, domain) == a \o sep \o b \o <<"@">> \o domain

\* the separators "", ".", "_", "-"
Separators == { <<>>, <<".">>, <<"_">>, <<"-">> }

\* a and b joined by each separator
Joined(a, b, domain) == {Pattern(a, sep, b, domain) : sep \in Separators}

\* a and b joined by each separator, in both orders
BothOrders(a, b, domain) == Joined(a, b, domain) \cup Joined(b, a, domain)

\* first_parts taken from the first name without lowercasing it
FirstPartsKeepCase(first_name) ==
    LET parts == SplitWs(strip_unicode(extract_primary_first_name(Strip(first_name))))
    IN [k \in 1..Len(parts) |-> CleanToken(parts[k])]

\* first_parts of _generate_patterns_core (lines 193-196)
FirstParts(first_name) ==
    LET parts == SplitWs(strip_unicode(extract_primary_first_name(Lower(Strip(first_name)))))
    IN [k \in 1..Len(parts) |-> CleanToken(parts[k])]

\* last_parts before the suffix filter (lines 201-202)
RawLastParts(last_name) ==
    LET parts == SplitWs(Lower(Strip(last_name)))
    IN [k \in 1..Len(parts) |-> strip_unicode(CleanToken(parts[k]))]

\* last_parts after the suffix filter (line 208)
LastParts(last_name) ==
    SelectSeq(RawLastParts(last_name), LAMBDA part : Lower(part) \notin IGNORE_SUFFIXES)

\* "".join(parts)
RECURSIVE Concat(_)
Concat(parts) == IF parts = <<>> THEN <<>> ELSE Head(parts) \o Concat(Tail(parts))

\* s[0], "" for an empty s
Initial(s) == IF s = <<>> THEN <<>> ELSE <<s[1]>>

\* x when the condition holds, "" otherwise: f"..." if cond else ""
IfSet(cond, x) == IF cond # <<>> THEN x ELSE <<>>

\* each first name part x each last name part (lines 222-233)
PartCombinations(first_parts, last_parts, domain) ==
    UNION { BothOrders(first_parts[a], last_parts[b], domain) :
                a \in 1..Len(first_parts), b \in 1..Len(last_parts) }

\* the full combinations and the initials (lines 236-259)
FullCombinations(f_full, l_full, f_initial, l_initial, domain) ==
    BothOrders(f_full, l_full, domain)
    \cup { Pattern(f_full, <<>>, <<>>, domain),
           Pattern(l_full, <<>>, <<>>, domain),
           IfSet(l_initial, Pattern(f_full, <<>>, l_initial, domain)),
           IfSet(f_initial, Pattern(l_full, <<>>, f_initial, domain)),
           IfSet(l_initial, Pattern(f_full, <<".">>, l_initial, domain)),
           IfSet(f_initial, Pattern(l_full, <<".">>, f_initial, domain)),
           IfSet(f_initial, Pattern(f_initial, <<".">>, l_full, domain)),
           IfSet(l_initial, Pattern(l_initial, <<".">>, f_full, domain)),
           IfSet(f_initial, Pattern(f_initial, <<"_">>, l_full, domain)),
           IfSet(l_initial, Pattern(l_initial, <<"_">>, f_full, domain)),
           IfSet(f_initial, Pattern(f_initial, <<"-">>, l_full, domain)),
           IfSet(l_initial, Pattern(l_initial, <<"-">>, f_full, domain)),
           IfSet(f_initial, Pattern(f_initial, <<>>, l_full, domain)),
           IfSet(f_initial, Pattern(l_full, <<>>, f_initial, domain)) }

\* first name with the initial of each last name part (lines 262-271, 307-308)
LastInitialCombinations(f_full, last_parts, l_initial, domain) ==
    (IF f_full # <<>>
     THEN UNION { Joined(f_full, Initial(last_parts[b]), domain) :
                     b \in {b \in 1..Len(last_parts) : last_parts[b] # <<>>} }
     ELSE {})
    \cup (IF f_full # <<>> /\ l_initial # <<>>
          THEN { Pattern(f_full, <<"_">>, l_initial, domain) }
          ELSE {})

\* last name with the first initial and the reverse (lines 274-291)
InitialCombinations(f_full, l_full, f_initial, l_initial, domain) ==
    (IF l_full # <<>> /\ f_initial # <<>>
     THEN Joined(l_full, f_initial, domain) \cup { Pattern(f_initial, <<>>, l_full, domain) }
     ELSE {})
    \cup (IF l_initial # <<>> /\ f_full # <<>> THEN Joined(l_initial, f_full, domain) ELSE {})

\* the fallback formats using the last word of the last name (lines 294-304)
LastWordCombinations(f_full, f_initial, last_word, domain) ==
    IF last_word = <<>> THEN {}
    ELSE (IF f_full # <<>>
          THEN { Pattern(f_full, <<".">>, last_word, domain),
                 Pattern(f_full, <<>>, last_word, domain) }
          ELSE {})
         \cup (IF f_initial # <<>>
               THEN { Pattern(f_initial, <<".">>, last_word, domain),
                      Pattern(f_initial, <<>>, last_word, domain) }
               ELSE {})

\* the concatenated multi-token last name (lines 312-330)
ConcatenatedLast(f_full, f_initial, last_parts, domain) ==
    IF Len(last_parts) > 1
    THEN BothOrders(f_full, Concat(last_parts), domain)
         \cup { Pattern(Concat(last_parts), <<>>, <<>>, domain),
                IfSet(f_initial, Pattern(f_initial, <<".">>, Concat(last_parts), domain)),
                IfSet(f_initial, Pattern(f_initial, <<>>, Concat(last_parts), domain)) }
         \cup (IF f_initial # <<>> THEN Joined(Concat(last_parts), f_initial, domain)
               ELSE { <<>> })
    ELSE {}

\* the compound first name (lines 334-353)
CompoundFirst(first_parts, last_parts, domain) ==
    IF Len(first_parts) > 1
    THEN UNION { Joined(first_parts[q[1]], first_parts[q[2]], domain) :
                    q \in {q \in (DOMAIN first_parts) \X (DOMAIN first_parts) : q[1] < q[2]} }
         \cup UNION { Joined(first_parts[a], last_parts[b], domain) :
                        a \in 1..Len(first_parts), b \in 1..Len(last_parts) }
    ELSE {}

\* the set "permutations" before the token mode (lines 213-353), blanks included
CorePermutations(first_parts, last_parts, f_full, l_full, f_initial, l_initial, domain) ==
    PartCombinations(first_parts, last_parts, domain)
    \cup FullCombinations(f_full, l_full, f_initial, l_initial, domain)
    \cup LastInitialCombinations(f_full, last_parts, l_initial, domain)
    \cup InitialCombinations(f_full, l_full, f_initial, l_initial, domain)
    \cup LastWordCombinations(f_full, f_initial, last_parts[Len(last_parts)], domain)
    \cup ConcatenatedLast(f_full, f_initial, last_parts, domain)
    \cup CompoundFirst(first_parts, last_parts, domain)

\* the patterns of one token (lines 397-444)
TokenPatterns(token, first_parts, f_full, f_initial, valid_tokens, domain) ==
    UNION { BothOrders(first_parts[a], token, domain) : a \in 1..Len(first_parts) }
    \cup BothOrders(f_full, token, domain)
    \cup { Pattern(token, <<>>, <<>>, domain) }
    \cup (IF f_initial # <<>>
          THEN { Pattern(f_initial, <<".">>, token, domain),
                 Pattern(f_initial, <<>>, token, domain) }
               \cup Joined(token, f_initial, domain)
          ELSE {})
    \cup UNION { Joined(token, other_token, domain) : other_token \in valid_tokens \ {token} }

\* the tokens of both names and of the original names when they differ (lines 365-375)
AllTokens(first_name, last_name, original_first_name, original_last_name) ==
    Range(tokenize_name(first_name)) \cup Range(tokenize_name(last_name))
    \cup (IF original_first_name # <<>> /\ original_first_name # first_name
          THEN Range(tokenize_name(original_first_name)) ELSE {})
    \cup (IF original_last_name # <<>> /\ original_last_name # last_name
          THEN Range(tokenize_name(original_last_name)) ELSE {})

\* the tokens kept (lines 381-384)
ValidTokens(all_tokens, token_min_len) ==
    {token \in all_tokens : Len(token) >= token_min_len /\ Lower(token) \notin IGNORE_SUFFIXES}

\* the subsets of S with k elements: what list(S)[:k] can keep
RECURSIVE KSubsets(_, _)
KSubsets(S, k) ==
    IF k = 0 THEN {{}}
    ELSE IF Cardinality(S) <= k THEN {S}
    ELSE LET x == CHOOSE x \in S : TRUE
         IN KSubsets(S \ {x}, k) \cup {T \cup {x} : T \in KSubsets(S \ {x}, k - 1)}

\* the tokens that can come next in valid_tokens: list(set(...)) in any order, then
\* a stable sort by decreasing length (lines 378, 387)
NextTokens(remaining) ==
    {token \in remaining : \A other \in remaining : Len(other) <= Len(token)}

\* the values token_permutations can have after the loop over the remaining tokens
\* (lines 392-454); ctx holds first_parts, f_full, f_initial, valid_tokens, domain,
\* permutations and row_budget
RECURSIVE TokenLoop(_, _, _, _)
TokenLoop(remaining, token_permutations, candidates_added, ctx) ==
    IF remaining = {} \/ candidates_added >= ctx.row_budget THEN {token_permutations}
    ELSE UNION {
           UNION { TokenLoop(remaining \ {token}, token_permutations \cup patterns_to_add,
                             candidates_added + Cardinality(patterns_to_add), ctx) :
                   patterns_to_add \in
                       KSubsets(TokenPatterns(token, ctx.first_parts, ctx.f_full,
                                              ctx.f_initial, ctx.valid_tokens, ctx.domain)
                                  \ (ctx.permutations \cup token_permutations),
                                ctx.row_budget - candidates_added) } :
           token \in NextTokens(remaining) }

\* what a call returns: a set of candidates, or an exception raised
Returned(value) == [raised |-> FALSE, value |-> value]

Raised == [raised |-> TRUE, value |-> {}]

\* the sets _generate_patterns_core can return once first_parts, last_parts and the
\* domain are known to be non-empty (lines 213-462); first_parts[0][0] raises
\* IndexError when the first part of the first name is empty after cleaning
CoreFrom(first_parts, last_parts, domain, valid_tokens, row_budget, enable_token_mode) ==
    IF first_parts[1] = <<>> THEN {Raised}
    ELSE IF ~enable_token_mode
    THEN { Returned(CorePermutations(first_parts, last_parts, Concat(first_parts),
                                 Concat(last_parts), Initial(first_parts[1]),
                                 Initial(last_parts[1]), domain) \ {<<>>}) }
    ELSE { Returned((CorePermutations(first_parts, last_parts, Concat(first_parts),
                                  Concat(last_parts), Initial(first_parts[1]),
                                  Initial(last_parts[1]), domain)
                     \cup token_permutations) \ {<<>>}) :
             token_permutations \in
                TokenLoop(valid_tokens, {}, 0,
                          [first_parts |-> first_parts,
                           f_full |-> Concat(first_parts),
                           f_initial |-> Initial(first_parts[1]),
                           valid_tokens |-> valid_tokens,
                           domain |-> domain,
                           permutations |->
                               CorePermutations(first_parts, last_parts, Concat(first_parts),
                                            Concat(last_parts), Initial(first_parts[1]),
                                            Initial(last_parts[1]), domain),
                           row_budget |-> row_budget]) }

\* _generate_patterns_core(first_name, last_name, domain, token_min_len, row_budget,
\* enable_token_mode, original_first_name, original_last_name): what it can return
generate_patterns_core(first_name, last_name, domain, token_min_len, row_budget, enable_token_mode, original_first_name, original_last_name) ==
    IF \/ FirstParts(first_name) = <<>>
       \/ RawLastParts(last_name) = <<>>
       \/ Lower(Strip(domain)) = <<>>
       \/ LastParts(last_name) = <<>>
    THEN { Returned({}) }
    ELSE CoreFrom(FirstParts(first_name), LastParts(last_name), Lower(Strip(domain)),
                  ValidTokens(AllTokens(first_name, last_name, original_first_name,
                                        original_last_name), token_min_len),
                  row_budget, enable_token_mode)

\* the union of the results of the two core calls (lines 162-182)
BothCores(restructured_patterns, original_patterns) ==
    IF \E r \in restructured_patterns : r.raised THEN {Raised}
    ELSE IF \E r \in original_patterns : r.raised THEN {Raised}
    ELSE { Returned(r.value \cup o.value) :
             r \in restructured_patterns, o \in original_patterns }

\* generate_email_permutations(first_name, last_name, domain, token_min_len,
\* row_budget, enable_token_mode): what it can return
generate_email_permutations(first_name, last_name, domain, token_min_len, row_budget, enable_token_mode) ==
    IF restructure_compound_names(first_name, last_name) # <<first_name, last_name>>
    THEN BothCores(
           generate_patterns_core(restructure_compound_names(first_name, last_name)[1],
                                  restructure_compound_names(first_name, last_name)[2],
                                  domain, token_min_len, row_budget, enable_token_mode,
                                  first_name, last_name),
           generate_patterns_core(first_name, last_name, domain, token_min_len,
                                  row_budget, enable_token_mode, first_name, last_name))
    ELSE generate_patterns_core(first_name, last_name, domain, token_min_len, row_budget,
                                enable_token_mode, first_name, last_name)

\* the default row_budget of generate_email_permutations
DefaultRowBudget == 100

\* generate_email_permutations(first_name, last_name, domain) with the default
\* token_min_len, row_budget and enable_token_mode: what it can return
DefaultPermutations(first_name, last_name, domain) ==
    generate_email_permutations(first_name, last_name, domain, 1, DefaultRowBudget, TRUE)

\* the stripped (first, last, domain) cells of the rows with names
NameTriples ==
    { <<CellOf(row, "First"), CellOf(row, "Last"), CellOf(row, "Domain")>> :
          row \in DupLeadRows \cup DupDeliveryRows }

generate_email_permutations_table ==
    [t \in NameTriples |-> DefaultPermutations(t[1], t[2], t[3])]

\* generate_email_permutations(first_name, last_name, domain), looked up when the
\* arguments are tabulated
PermutationsOf(first_name, last_name, domain) ==
    IF <<first_name, last_name, domain>> \in NameTriples
    THEN generate_email_permutations_table[<<first_name, last_name, domain>>]
    ELSE DefaultPermutations(first_name, last_name, domain)


(***************************************************************************)
(* Duplicate Detector: CPC_Duplicate_Helper/internal_checkers.py           *)
(* (InternalDuplicateChecker) and duplicate_checker.py (DuplicateChecker)  *)
(***************************************************************************)
\* the index of the first occurrence of m in s, 0 when there is none
FirstIndexOf(s, m) ==
    IF IsSubstring(m, s)
    THEN Min({k \in 1..(Len(s) - Len(m) + 1) : SubSeq(s, k, k + Len(m) - 1) = m})
    ELSE 0

\* s.split(m)[0]
BeforeFirst(s, m) ==
    IF FirstIndexOf(s, m) = 0 THEN s ELSE SubSeq(s, 1, FirstIndexOf(s, m) - 1)

\* m.join(s.split(m)[1:]) for an s that contains m
AfterFirst(s, m) == SubSeq(s, FirstIndexOf(s, m) + Len(m), Len(s))

\* str.strip("/")
StripSlashes(s) ==
    IF \A k \in 1..Len(s) : s[k] = "/" THEN <<>>
    ELSE SubSeq(s, Min({k \in 1..Len(s) : s[k] # "/"}), Max({k \in 1..Len(s) : s[k] # "/"}))

\* link.split("/in/")[1].split("?")[0].strip("/")
ProfilePart(link) ==
    StripSlashes(BeforeFirst(BeforeFirst(AfterFirst(link, <<"/", "i", "n", "/">>), <<"/", "i", "n", "/">>), <<"?">>))

\* normalize_linkedin_url(link)
normalize_linkedin_url(link) ==
    IF link = <<>> THEN <<>>
    ELSE IF ~IsSubstring(<<"/", "i", "n", "/">>, Strip(link)) THEN Lower(Strip(link))
    ELSE <<"h", "t", "t", "p", "s", ":", "/", "/", "w", "w", "w", ".", "l", "i", "n", "k", "e", "d", "i", "n", ".", "c", "o", "m", "/", "i", "n", "/">> \o ProfilePart(Strip(link)) \o <<"/">>

\* re.sub(r"[^a-z]", "", name.lower())
CleanName(name) == SelectSeq(Lower(name), LAMBDA c : c \in Range(LowerLetters))

\* the signatures built from the cleaned names (lines 243-250)
CleanSignatures(first_clean, last_clean, domain) ==
    { first_clean \o <<".">> \o last_clean \o <<"@">> \o domain,
      first_clean \o last_clean \o <<"@">> \o domain }
    \cup (IF Len(last_clean) >= 3
          THEN { first_clean \o <<".">> \o SubSeq(last_clean, 1, 3) \o <<"@">> \o domain,
                 first_clean \o SubSeq(last_clean, 1, 3) \o <<"@">> \o domain }
          ELSE {})

\* _generate_conservative_name_signatures with each name alone as a signature too
generate_single_name_signatures(first_name, last_name, domain) ==
    IF CleanName(first_name) = <<>> \/ CleanName(last_name) = <<>> THEN {}
    ELSE CleanSignatures(CleanName(first_name), CleanName(last_name), domain)
         \cup { CleanName(first_name) \o <<"@">> \o domain,
                CleanName(last_name) \o <<"@">> \o domain }

\* InternalDuplicateChecker._generate_conservative_name_signatures
generate_conservative_name_signatures(first_name, last_name, domain) ==
    IF CleanName(first_name) = <<>> \/ CleanName(last_name) = <<>> THEN {}
    ELSE CleanSignatures(CleanName(first_name), CleanName(last_name), domain)

\* InternalDuplicateChecker._can_check_name_domain(mapping)
can_check_name_domain(map) ==
    /\ map["lead_first"] # NotAvailable
    /\ map["lead_last"] # NotAvailable
    /\ map["lead_domain"] # NotAvailable

\* the normalized profile link of a lead row (lines 156-164)
LinkedinValue(row, col) ==
    IF col # NotAvailable THEN normalize_linkedin_url(CellOf(row, col)) ELSE <<>>

\* the conservative signatures of a lead row: empty unless first name, last name
\* and root domain are all present (lines 187-196)
RowNameSignatures(row) ==
    IF /\ CellOf(row, mapping["lead_first"]) # <<>>
       /\ CellOf(row, mapping["lead_last"]) # <<>>
       /\ DomainValue(row, mapping["lead_domain"]) # <<>>
    THEN generate_conservative_name_signatures(
            Lower(CellOf(row, mapping["lead_first"])),
            Lower(CellOf(row, mapping["lead_last"])),
            RootDomainOf(DomainValue(row, mapping["lead_domain"])))
    ELSE {}

\* ConservativeSignatures of a row that is an exact duplicate too
ConservativeSignaturesOfEveryRow(row, duplicate_found) ==
    IF can_check_name_domain(mapping) THEN RowNameSignatures(row) ELSE {}

\* the signatures the name check of a row looks up and records: none after an exact
\* email or link duplicate or without the name roles (lines 183-196)
ConservativeSignatures(row, duplicate_found) ==
    IF ~duplicate_found /\ can_check_name_domain(mapping)
    THEN RowNameSignatures(row) ELSE {}

\* CheckedAgainst with the row's own value already added
CheckedAgainstOwnToo(seen, val) == seen \cup {val}

\* the signatures a row's value is looked up in: those of the rows processed before
\* it, its own being added after the lookup (lines 166-181 and 211-215)
CheckedAgainst(seen, val) == seen

\* x when the condition holds, no element otherwise
When(cond, x) == IF cond THEN <<x>> ELSE <<>>

InternalDuplicate == <<"I", "n", "t", "e", "r", "n", "a", "l", " ", "D", "u", "p", "l", "i", "c", "a", "t", "e">>

\* the row is flagged: disqualify_lead and the counter (lines 217-227)
DupIntVerdict(duplicate_reasons, details) ==
    IF duplicate_reasons # <<>>
    THEN \E comment \in {<<"D", "u", "p", "l", "i", "c", "a", "t", "e", " ", "w", "i", "t", "h", "i", "n", " ", "f", "i", "l", "e", " ", "-", " ">> \o Join(<<";", " ">>, duplicate_reasons)} :
           /\ ws' = [ws EXCEPT ![i] = disqualify_lead(@, InternalDuplicate, comment)]
           /\ calls' = Append(calls, [row |-> i, reason |-> InternalDuplicate,
                                      comment |-> comment])
           /\ dup_stats' = [dup_stats EXCEPT
                              !.internal_duplicates = @ + 1,
                              !.internal_duplicate_details = @ \o details]
    ELSE UNCHANGED <<ws, calls, dup_stats>>

\* one iteration of "for idx, lrow in enumerate(lead_data, start=2)" on a row that is
\* not yet disqualified (lines 147-227)
DupIntRow ==
    /\ pc = "dup_int"
    /\ i <= Len(lead_data)
    /\ ws[i][StatusHeader] # Disqualified
    /\ \E email_val \in {DomainValue(lead_data[i], mapping["lead_email"])},
          linkedin_val \in {LinkedinValue(lead_data[i], mapping["lead_linkedin"])} :
       \E email_dup \in {email_val # <<>>
                          /\ email_val \in CheckedAgainst(seen_signatures.emails, email_val)},
          linkedin_dup \in {linkedin_val # <<>>
                             /\ linkedin_val \in CheckedAgainst(seen_signatures.linkedin,
                                                                linkedin_val)} :
       \E conservative_signatures \in
              {ConservativeSignatures(lead_data[i], email_dup \/ linkedin_dup)} :
       \E signature \in IF conservative_signatures
                              \cap seen_signatures.name_domain_combinations = {}
                        THEN {<<>>}
                        ELSE conservative_signatures
                                \cap seen_signatures.name_domain_combinations :
          /\ seen_signatures' =
               [emails |-> seen_signatures.emails \cup (IF email_val # <<>>
                                                        THEN {email_val} ELSE {}),
                linkedin |-> seen_signatures.linkedin \cup (IF linkedin_val # <<>>
                                                            THEN {linkedin_val} ELSE {}),
                name_domain_combinations |->
                    seen_signatures.name_domain_combinations \cup conservative_signatures]
          /\ DupIntVerdict(
               When(email_dup, <<"I", "n", "t", "e", "r", "n", "a", "l", " ", "d", "u", "p", "l", "i", "c", "a", "t", "e", " ", "e", "m", "a", "i", "l">>)
               \o When(linkedin_dup, <<"I", "n", "t", "e", "r", "n", "a", "l", " ", "d", "u", "p", "l", "i", "c", "a", "t", "e", " ", "L", "i", "n", "k", "e", "d", "I", "n">>)
               \o When(signature # <<>>, <<"I", "n", "t", "e", "r", "n", "a", "l", " ", "d", "u", "p", "l", "i", "c", "a", "t", "e", " ", "n", "a", "m", "e", "+", "r", "o", "o", "t", " ", "d", "o", "m", "a", "i", "n", " ", "m", "a", "t", "c", "h">>),
               When(email_dup, [row |-> i + 1, type |-> "email", value |-> email_val])
               \o When(linkedin_dup, [row |-> i + 1, type |-> "linkedin",
                                      value |-> linkedin_val])
               \o When(signature # <<>>, [row |-> i + 1, type |-> "name_root_domain",
                                          value |-> signature]))
    /\ i' = i + 1
    /\ UNCHANGED <<pc, inputVars, cpcVars, phoneVars, delivery_signatures, lead_signatures>>

\* DupIntSkip recording the email and the link of the skipped row
DupIntSkipRecording ==
    /\ pc = "dup_int"
    /\ i <= Len(lead_data)
    /\ ws[i][StatusHeader] = Disqualified
    /\ seen_signatures' =
         [seen_signatures EXCEPT
            !.emails = @ \cup ({DomainValue(lead_data[i], mapping["lead_email"])} \ {<<>>}),
            !.linkedin = @ \cup ({LinkedinValue(lead_data[i], mapping["lead_linkedin"])}
                                 \ {<<>>})]
    /\ i' = i + 1
    /\ UNCHANGED <<pc, ws, inputVars, cpcVars, calls, phoneVars, delivery_signatures,
                   lead_signatures, dup_stats>>

\* "continue" on a row whose status is already "Disqualified" (lines 149-150)
DupIntSkip ==
    /\ pc = "dup_int"
    /\ i <= Len(lead_data)
    /\ ws[i][StatusHeader] = Disqualified
    /\ i' = i + 1
    /\ UNCHANGED <<pc, ws, inputVars, cpcVars, checkVars>>

\* "return self.stats" (line 229)
DupIntReturn ==
    /\ pc = "dup_int"
    /\ i > Len(lead_data)
    /\ pc' = "done"
    /\ UNCHANGED <<i, ws, inputVars, cpcVars, checkVars>>

\* DuplicateChecker._can_check_permutations(mapping)
can_check_permutations(map) ==
    /\ map["delivery_first"] # NotAvailable
    /\ map["delivery_last"] # NotAvailable
    /\ map["delivery_domain"] # NotAvailable
    /\ map["lead_first"] # NotAvailable
    /\ map["lead_last"] # NotAvailable
    /\ map["lead_domain"] # NotAvailable

\* the non-empty values of the stripped, lowercased cells of a column
ColumnSignatures(rows, col) ==
    IF col # NotAvailable
    THEN {DomainValue(rows[k], col) : k \in 1..Len(rows)} \ {<<>>}
    ELSE {}

SameProspectDuplicate == <<"S", "a", "m", "e", " ", "P", "r", "o", "s", "p", "e", "c", "t", " ", "D", "u", "p", "l", "i", "c", "a", "t", "e">>

\* what generate_email_permutations(f, l, d) can return for the stripped name and
\* domain cells of a row, and the empty set without a call when one of them is blank
\* (lines 58-64, 132-138)
RowPermutations(row, first_col, last_col, domain_col) ==
    IF /\ CellOf(row, first_col) # <<>>
       /\ CellOf(row, last_col) # <<>>
       /\ CellOf(row, domain_col) # <<>>
    THEN PermutationsOf(CellOf(row, first_col), CellOf(row, last_col),
                        CellOf(row, domain_col))
    ELSE { Returned({}) }

\* 'email_permutations' and the number of generation failures after the loop of
\* _build_delivery_signatures over the rows (lines 130-141): a call that raises adds
\* one to permutation_errors and nothing to the set
RECURSIVE BuildPermutations(_, _)
BuildPermutations(rows, map) ==
    IF rows = <<>> \/ ~can_check_permutations(map)
    THEN { [email_permutations |-> {}, permutation_errors |-> 0] }
    ELSE { IF returned.raised
           THEN [rest EXCEPT !.permutation_errors = @ + 1]
           ELSE [rest EXCEPT !.email_permutations = @ \cup returned.value] :
             returned \in RowPermutations(Head(rows), map["delivery_first"],
                                          map["delivery_last"], map["delivery_domain"]),
             rest \in BuildPermutations(Tail(rows), map) }

\* _build_delivery_signatures and the empty lead_signatures (lines 20-23, 115-149)
DupExtBuild ==
    /\ pc = "dup_ext_build"
    /\ \E built \in BuildPermutations(delivery_data, mapping) :
          /\ delivery_signatures' =
               [emails |-> ColumnSignatures(delivery_data, mapping["delivery_email"]),
                email_permutations |-> built.email_permutations,
                linkedin |-> ColumnSignatures(delivery_data, mapping["delivery_linkedin"])]
          /\ dup_stats' = [dup_stats EXCEPT !.permutation_errors =
                                                @ + built.permutation_errors]
    /\ lead_signatures' = [emails |-> {}, linkedin |-> {}]
    /\ pc' = "dup_ext"
    /\ i' = 1
    /\ UNCHANGED <<ws, inputVars, cpcVars, calls, phoneVars, seen_signatures>>

\* the row is flagged as internal duplicate although a delivery match exists
DupExtVerdictInternalFirst(external_reasons, internal_reasons, details, stats) ==
    IF internal_reasons # <<>>
    THEN \E comment \in {<<"D", "u", "p", "l", "i", "c", "a", "t", "e", " ", "w", "i", "t", "h", "i", "n", " ", "f", "i", "l", "e", " ", "-", " ">>
                         \o Join(<<";", " ">>, external_reasons \o internal_reasons)} :
           /\ ws' = [ws EXCEPT ![i] = disqualify_lead(@, InternalDuplicate, comment)]
           /\ calls' = Append(calls, [row |-> i, reason |-> InternalDuplicate,
                                      comment |-> comment])
           /\ dup_stats' = [stats EXCEPT !.internal_duplicates = @ + 1,
                                         !.duplicate_details = @ \o details]
    ELSE IF external_reasons # <<>>
    THEN \E comment \in {<<"S", "a", "m", "e", " ", "P", "r", "o", "s", "p", "e", "c", "t", " ", "S", "a", "m", "e", " ", "C", "a", "m", "p", "a", "i", "g", "n", " ", "-", " ">>
                         \o Join(<<";", " ">>, external_reasons)} :
           /\ ws' = [ws EXCEPT ![i] = disqualify_lead(@, SameProspectDuplicate, comment)]
           /\ calls' = Append(calls, [row |-> i, reason |-> SameProspectDuplicate,
                                      comment |-> comment])
           /\ dup_stats' = [stats EXCEPT !.duplicates_found = @ + 1,
                                         !.duplicate_details = @ \o details]
    ELSE /\ dup_stats' = stats
         /\ UNCHANGED <<ws, calls>>

\* the row is flagged, as external duplicate first (lines 92-111); stats is
\* self.stats after the permutation check of the row
DupExtVerdict(external_reasons, internal_reasons, details, stats) ==
    IF external_reasons # <<>>
    THEN \E comment \in {<<"S", "a", "m", "e", " ", "P", "r", "o", "s", "p", "e", "c", "t", " ", "S", "a", "m", "e", " ", "C", "a", "m", "p", "a", "i", "g", "n", " ", "-", " ">>
                         \o Join(<<";", " ">>, external_reasons \o internal_reasons)} :
           /\ ws' = [ws EXCEPT ![i] = disqualify_lead(@, SameProspectDuplicate, comment)]
           /\ calls' = Append(calls, [row |-> i, reason |-> SameProspectDuplicate,
                                      comment |-> comment])
           /\ dup_stats' = [stats EXCEPT !.duplicates_found = @ + 1,
                                         !.duplicate_details = @ \o details]
    ELSE IF internal_reasons # <<>>
    THEN \E comment \in {<<"D", "u", "p", "l", "i", "c", "a", "t", "e", " ", "w", "i", "t", "h", "i", "n", " ", "f", "i", "l", "e", " ", "-", " ">> \o Join(<<";", " ">>, internal_reasons)} :
           /\ ws' = [ws EXCEPT ![i] = disqualify_lead(@, InternalDuplicate, comment)]
           /\ calls' = Append(calls, [row |-> i, reason |-> InternalDuplicate,
                                      comment |-> comment])
           /\ dup_stats' = [stats EXCEPT !.internal_duplicates = @ + 1]
    ELSE /\ dup_stats' = stats
         /\ UNCHANGED <<ws, calls>>

\* what the permutation check of lead row k can return: no call after an exact match or
\* without all six name roles (lines 56-62)
LeadPermutations(k, exact_match) ==
    IF ~exact_match /\ can_check_permutations(mapping)
    THEN RowPermutations(lead_data[k], mapping["lead_first"], mapping["lead_last"],
                         mapping["lead_domain"])
    ELSE { Returned({}) }

\* a raise is caught and taken for no match
PermutationMatchDespiteRaise(returned) ==
    returned.raised \/ returned.value \cap delivery_signatures.email_permutations # {}

\* perms_lead & delivery_signatures['email_permutations'] is not empty (line 65)
PermutationMatch(returned) ==
    ~returned.raised /\ returned.value \cap delivery_signatures.email_permutations # {}

\* f"{lf} {ll} @ {ld}" (line 71)
PermutationValue(row) ==
    CellOf(row, mapping["lead_first"]) \o <<" ">> \o CellOf(row, mapping["lead_last"])
    \o <<" ", "@", " ">> \o CellOf(row, mapping["lead_domain"])

\* one iteration of "for idx, lrow in enumerate(lead_data, start=2)" on a row that is
\* not yet disqualified (lines 25-111)
DupExtRow ==
    /\ pc = "dup_ext"
    /\ i <= Len(lead_data)
    /\ ws[i][StatusHeader] # Disqualified
    /\ \E email_val \in {DomainValue(lead_data[i], mapping["lead_email"])},
          linkedin_val \in {DomainValue(lead_data[i], mapping["lead_linkedin"])} :
       \E email_match \in {email_val # <<>> /\ email_val \in delivery_signatures.emails},
          linkedin_match \in {linkedin_val # <<>>
                              /\ linkedin_val \in delivery_signatures.linkedin} :
       \E returned \in LeadPermutations(i, email_match \/ linkedin_match) :
          /\ lead_signatures' =
               [emails |-> lead_signatures.emails \cup (IF email_val # <<>>
                                                        THEN {email_val} ELSE {}),
                linkedin |-> lead_signatures.linkedin \cup (IF linkedin_val # <<>>
                                                            THEN {linkedin_val} ELSE {})]
          /\ DupExtVerdict(
               When(email_match, <<"E", "m", "a", "i", "l", " ", "m", "a", "t", "c", "h", " ", "i", "n", " ", "d", "e", "l", "i", "v", "e", "r", "y">>)
               \o When(linkedin_match, <<"L", "i", "n", "k", "e", "d", "I", "n", " ", "m", "a", "t", "c", "h", " ", "i", "n", " ", "d", "e", "l", "i", "v", "e", "r", "y">>)
               \o When(PermutationMatch(returned), <<"E", "m", "a", "i", "l", " ", "p", "e", "r", "m", "u", "t", "a", "t", "i", "o", "n", " ", "m", "a", "t", "c", "h", " ", "i", "n", " ", "d", "e", "l", "i", "v", "e", "r", "y">>),
               When(email_val # <<>>
                    /\ email_val \in CheckedAgainst(lead_signatures.emails, email_val),
                    <<"I", "n", "t", "e", "r", "n", "a", "l", " ", "d", "u", "p", "l", "i", "c", "a", "t", "e", " ", "e", "m", "a", "i", "l">>)
               \o When(linkedin_val # <<>>
                       /\ linkedin_val \in CheckedAgainst(lead_signatures.linkedin,
                                                          linkedin_val),
                       <<"I", "n", "t", "e", "r", "n", "a", "l", " ", "d", "u", "p", "l", "i", "c", "a", "t", "e", " ", "L", "i", "n", "k", "e", "d", "I", "n">>),
               When(email_match, [row |-> i + 1, type |-> "email", value |-> email_val])
               \o When(linkedin_match, [row |-> i + 1, type |-> "linkedin",
                                        value |-> linkedin_val])
               \o When(PermutationMatch(returned),
                       [row |-> i + 1, type |-> "permutation",
                        value |-> PermutationValue(lead_data[i])]),
               [dup_stats EXCEPT !.permutation_errors =
                                     IF returned.raised THEN @ + 1 ELSE @])
    /\ i' = i + 1
    /\ UNCHANGED <<pc, inputVars, cpcVars, phoneVars, seen_signatures, delivery_signatures>>

\* "continue" on a row whose status is already "Disqualified" (lines 27-28)
DupExtSkip ==
    /\ pc = "dup_ext"
    /\ i <= Len(lead_data)
    /\ ws[i][StatusHeader] = Disqualified
    /\ i' = i + 1
    /\ UNCHANGED <<pc, ws, inputVars, cpcVars, checkVars>>

\* "return self.stats" (line 113)
DupExtReturn ==
    /\ pc = "dup_ext"
    /\ i > Len(lead_data)
    /\ pc' = "done"
    /\ UNCHANGED <<i, ws, inputVars, cpcVars, checkVars>>


(***************************************************************************)
(* The duplicate and phone passes on bounded inputs                        *)
(***************************************************************************)
MaxCheckLead == 3

MaxCheckDelivery == 2

\* every role mapped but the delivery names / also without the domain roles /
\* without the phone roles
AllMapped ==
    [delivery_company |-> "Company", delivery_domain |-> "Domain", delivery_tal |-> NotAvailable,
     delivery_phone |-> "Phone", delivery_email |-> "Email", delivery_linkedin |-> "LinkedIn",
     delivery_first |-> NotAvailable, delivery_last |-> NotAvailable,
     lead_company |-> "Company", lead_domain |-> "Domain", lead_tal |-> NotAvailable,
     lead_phone |-> "Phone", lead_email |-> "Email", lead_linkedin |-> "LinkedIn",
     lead_first |-> "First", lead_last |-> "Last"]

CheckMappings ==
    { AllMapped,
      [AllMapped EXCEPT !.delivery_domain = NotAvailable, !.lead_domain = NotAvailable],
      [AllMapped EXCEPT !.delivery_phone = NotAvailable, !.lead_phone = NotAvailable,
                        !.lead_linkedin = NotAvailable] }

\* the writer cells and conflict columns of lead row k before a pass
CheckSheetRow(row) ==
    (StatusHeader :> row.Status) @@ (ReasonHeader :> <<>>) @@ (CommentHeader :> <<>>)
    @@ (PhoneColumn :> <<>>) @@ (InternalPhoneColumn :> <<>>)

\* a checker of process_files / process_files_internal constructed and its pass entered
InitChecks ==
    /\ pc \in {"dup_ext_build", "phone_build", "dup_int", "phone_int"}
    /\ mapping \in CheckMappings
    /\ delivery_data \in SeqsUpTo(CheckDeliveryRows, MaxCheckDelivery)
    /\ pc \in {"dup_int", "phone_int"} => delivery_data = <<>>
    /\ lead_data \in SeqsUpTo(CheckLeadRows, MaxCheckLead)
    /\ cpc_limit = 1
    /\ i = 1
    /\ ws = [k \in 1..Len(lead_data) |-> CheckSheetRow(lead_data[k])]
    /\ CpcIdle
    /\ ChecksIdle

NextChecks ==
    \/ PhoneIntRow \/ PhoneIntReturn
    \/ PhoneBuildRow \/ PhoneBuildReturn \/ PhoneCheckRow \/ PhoneCheckReturn
    \/ DupIntRow \/ DupIntSkip \/ DupIntReturn
    \/ DupExtBuild \/ DupExtRow \/ DupExtSkip \/ DupExtReturn

SpecChecks == InitChecks /\ [][NextChecks]_vars


(***************************************************************************)
(* Claims about the phone and duplicate passes                             *)
(***************************************************************************)
\* the normalized phone number of a row
RowPhone(row, col) == normalize_phone(DictGet(row, col, <<>>))

\* the record with cells (company1, domain1) is resolved by its root domain, the
\* record (company2, domain2) has no domain and is resolved by its company, and
\* the two strings coincide
CoincidingKeys(company1, domain1, company2, domain2) ==
    /\ Lower(domain1) \notin IgnoredDomains
    /\ domain2 = <<>>
    /\ company2 # <<>>
    /\ NormalizeCompany(company2) = ExtractRootDomain(Lower(domain1))

\* the same, in either order
CoincidingEitherWay(company1, domain1, company2, domain2) ==
    \/ CoincidingKeys(company1, domain1, company2, domain2)
    \/ CoincidingKeys(company2, domain2, company1, domain1)

\* C5: identity keys are tagged in the phone detectors: a lead row that shares its
\* normalized phone number with the first record carrying that number (an earlier
\* lead row in the internal pass, a delivery row in the external pass), one of
\* the two resolved by root domain s and the other, without domain, by a company
\* normalizing to s, is reported as a phone conflict.
C5_TaggedIdentities ==
    /\ pc = "phone_int" =>
         \A k \in 1..Len(lead_data) :
            LET phone == RowPhone(lead_data[k], mapping["lead_phone"])
            IN (/\ k < i
                /\ phone \in DOMAIN phone_to_company
                /\ phone_to_company[phone].row < k + 1
                /\ CoincidingEitherWay(phone_to_company[phone].company,
                                       phone_to_company[phone].domain,
                                       CellOf(lead_data[k], mapping["lead_company"]),
                                       CellOf(lead_data[k], mapping["lead_domain"])))
               => ws[k][InternalPhoneColumn] # <<>>
    /\ pc = "phone_check" =>
         \A k \in 1..Len(lead_data) :
            LET phone == RowPhone(lead_data[k], mapping["lead_phone"])
            IN (/\ k < i
                /\ phone \in DOMAIN delivery_phone_to_domain
                /\ CoincidingEitherWay(delivery_phone_to_domain[phone].company,
                                       delivery_phone_to_domain[phone].domain,
                                       CellOf(lead_data[k], mapping["lead_company"]),
                                       CellOf(lead_data[k], mapping["lead_domain"])))
               => ws[k][PhoneColumn] # <<>>

\* lead row k was processed by the duplicate pass, not skipped as disqualified
Processed(k) == lead_data[k].Status # Disqualified

\* the value the running duplicate pass compares profile links by
PassLinkValue(row) ==
    IF pc = "dup_int" THEN LinkedinValue(row, mapping["lead_linkedin"])
    ELSE DomainValue(row, mapping["lead_linkedin"])

\* every recorded 'Internal duplicate email' / 'Internal duplicate LinkedIn' reason
\* is backed by an earlier processed row of the pass with the same value
InternalReasonsBacked ==
    pc \in {"dup_int", "dup_ext"} =>
        \A n \in 1..Len(calls) :
            /\ IsSubstring(<<"I", "n", "t", "e", "r", "n", "a", "l", " ", "d", "u", "p", "l", "i", "c", "a", "t", "e", " ", "e", "m", "a", "i", "l">>, calls[n].comment) =>
                 \E j \in 1..(calls[n].row - 1) :
                    /\ Processed(j)
                    /\ DomainValue(lead_data[j], mapping["lead_email"])
                         = DomainValue(lead_data[calls[n].row], mapping["lead_email"])
            /\ IsSubstring(<<"I", "n", "t", "e", "r", "n", "a", "l", " ", "d", "u", "p", "l", "i", "c", "a", "t", "e", " ", "L", "i", "n", "k", "e", "d", "I", "n">>, calls[n].comment) =>
                 \E j \in 1..(calls[n].row - 1) :
                    /\ Processed(j)
                    /\ PassLinkValue(lead_data[j]) = PassLinkValue(lead_data[calls[n].row])

\* lead row k is the first lead row its normalized phone number appears on
FirstLeadRowOfPhone(k) ==
    /\ RowPhone(lead_data[k], mapping["lead_phone"]) # <<>>
    /\ \A j \in 1..(k - 1) : RowPhone(lead_data[j], mapping["lead_phone"])
                              # RowPhone(lead_data[k], mapping["lead_phone"])

\* in the internal phone pass the first lead row of a number gets no message
InternalFirstPhoneImmune ==
    pc = "phone_int" =>
        \A k \in 1..Len(lead_data) :
            FirstLeadRowOfPhone(k) => ws[k][InternalPhoneColumn] = <<>>

\* C9 as stated: in any single pass the first lead row a normalized phone number
\* appears on never receives a phone-conflict message, and an internal duplicate
\* email / LinkedIn reason is recorded only if an earlier processed row of the
\* pass carried the same value.
C9_FirstLeadRowNeverFlagged ==
    /\ InternalFirstPhoneImmune
    /\ pc = "phone_check" =>
         \A k \in 1..Len(lead_data) : FirstLeadRowOfPhone(k) => ws[k][PhoneColumn] = <<>>
    /\ InternalReasonsBacked

\* C9: first-occurrence immunity: the first row a normalized phone number
\* appears on never receives a phone-conflict message (in the internal pass
\* the first lead row; in the external pass a lead row receives one only if a
\* delivery row carried the number), and an internal duplicate email / LinkedIn
\* reason is recorded only if an earlier processed row of the pass carried the
\* same value.
C9_FirstOccurrenceImmunity ==
    /\ InternalFirstPhoneImmune
    /\ pc = "phone_check" =>
         \A k \in 1..Len(lead_data) :
            ws[k][PhoneColumn] # <<>> =>
                \E d \in 1..Len(delivery_data) :
                    /\ RowPhone(delivery_data[d], mapping["delivery_phone"]) # <<>>
                    /\ RowPhone(delivery_data[d], mapping["delivery_phone"])
                         = RowPhone(lead_data[k], mapping["lead_phone"])
    /\ InternalReasonsBacked

\* the internal duplicate pass skipped a disqualified first row that carries an
\* email, left the next row with that email unflagged and flagged the third
C9_Witness ==
    /\ pc = "dup_int"
    /\ i = 4
    /\ ~Processed(1)
    /\ DomainValue(lead_data[1], mapping["lead_email"]) # <<>>
    /\ \A k \in 2..3 : DomainValue(lead_data[k], mapping["lead_email"])
                        = DomainValue(lead_data[1], mapping["lead_email"])
    /\ Len(calls) = 1
    /\ calls[1].row = 3
    /\ IsSubstring(<<"I", "n", "t", "e", "r", "n", "a", "l", " ", "d", "u", "p", "l", "i", "c", "a", "t", "e", " ", "e", "m", "a", "i", "l">>, calls[1].comment)
    /\ ws[2][StatusHeader] = <<>>

\* C10: Jonathan Kyle followed by Kyle Fleming at x.com, without shared email or
\* profile link, are both left unflagged by the internal duplicate check: their
\* conservative signature sets are disjoint.
C10_JonathanKyleNotFlagged ==
    (pc = "dup_int" /\ lead_data = <<JonathanKyle, KyleFleming>>) =>
        /\ RowNameSignatures(JonathanKyle) \cap RowNameSignatures(KyleFleming) = {}
        /\ calls = <<>>
        /\ \A k \in 1..2 : ws[k][StatusHeader] = <<>> /\ ws[k][CommentHeader] = <<>>
        /\ dup_stats.internal_duplicates = 0

\* both rows processed with the name roles mapped: four signatures of each are seen
C10_Witness ==
    /\ pc = "dup_int"
    /\ lead_data = <<JonathanKyle, KyleFleming>>
    /\ can_check_name_domain(mapping)
    /\ i = 3
    /\ seen_signatures.name_domain_combinations
         = RowNameSignatures(JonathanKyle) \cup RowNameSignatures(KyleFleming)
    /\ Cardinality(seen_signatures.name_domain_combinations) = 8


(***************************************************************************)
(* normalize_company applied to its own result                             *)
(***************************************************************************)
MaxWords == 3

\* words of a company name: articles, a plain word, legal suffixes
NameWords == { <<"T", "h", "e">>, <<"A">>, <<"A", "c", "m", "e">>, <<"I", "n", "c">>, <<"L", "L", "C">>, <<"C", "o", ".">> }

\* the names of at most MaxWords words, joined by single blanks
CompanyNames == {Join(<<" ">>, ws_) : ws_ \in SeqsUpTo(NameWords, MaxWords)}

\* the state the other passes are left in while a function is called on its own
PassesIdle ==
    /\ mapping = <<>>
    /\ delivery_data = <<>>
    /\ lead_data = <<>>
    /\ cpc_limit = 1
    /\ i = 1
    /\ ws = <<>>
    /\ CpcIdle
    /\ calls = <<>>
    /\ phone_to_company = <<>>
    /\ delivery_phone_to_domain = <<>>
    /\ phone_stats = [phone_conflicts |-> 0, phone_conflict_details |-> <<>>]
    /\ seen_signatures = [emails |-> {}, linkedin |-> {}, name_domain_combinations |-> {}]
    /\ delivery_signatures = [emails |-> {}, email_permutations |-> {}, linkedin |-> {}]
    /\ lead_signatures = [emails |-> {}, linkedin |-> {}]
    /\ dup_stats = [duplicates_found |-> 0, internal_duplicates |-> 0,
                    permutation_errors |-> 0, duplicate_details |-> <<>>,
                    internal_duplicate_details |-> <<>>]

InitNormalize ==
    /\ pc = "normalize"
    /\ args \in {<<name>> : name \in CompanyNames}
    /\ result = <<>>
    /\ PassesIdle

\* normalize_company(name), then normalize_company of what it returned
NormalizeCall ==
    /\ pc = "normalize"
    /\ Len(result) < 2
    /\ result' = Append(result, normalize_company(IF result = <<>> THEN args[1]
                                                  ELSE result[Len(result)]))
    /\ UNCHANGED <<pc, i, ws, passInputs, args, cpcVars, checkVars>>

NextNormalize == NormalizeCall

SpecNormalize == InitNormalize /\ [][NextNormalize]_vars


(***************************************************************************)
(* Properties of normalize_company                                         *)
(***************************************************************************)
\* C13: normalizing a normalized company name changes nothing:
\* normalize_company(normalize_company(x)) = normalize_company(x)
C13_Idempotent ==
    (pc = "normalize" /\ Len(result) = 2) => result[2] = result[1]


(***************************************************************************)
(* Internal CPC: CPC_Duplicate_Helper/internal_checkers.py                 *)
(* (InternalCPCChecker)                                                    *)
(***************************************************************************)
InternalCPCExceeded == <<"I", "n", "t", "e", "r", "n", "a", "l", " ", "C", "P", "C", " ", "E", "x", "c", "e", "e", "d", "e", "d">>

\* the four columns ensured before the loop (lines 44-47)
InternalCpcColumns == <<"Internal CPC by Company", "Internal CPC by TAL Company",
                        "Internal CPC by Domain", "Internal CPC by Root Domain">>

\* normalize_company of the cell as read, "" when the column is not mapped (lines 67-68)
InternalCompanyValue(row, col) ==
    IF col # NotAvailable THEN NormalizeCompany(DictGet(row, col, <<>>)) ELSE <<>>

\* the four values of one lead row (lines 67-70)
InternalValues(lrow) ==
    [company |-> InternalCompanyValue(lrow, mapping["lead_company"]),
     tal |-> InternalCompanyValue(lrow, mapping["lead_tal"]),
     domain |-> DomainValue(lrow, mapping["lead_domain"]),
     root_domain |-> RootDomainOf(DomainValue(lrow, mapping["lead_domain"]))]

\* the current count of a value, 0 for an empty one (lines 85-88)
InternalCount(counts, val) == IF val # <<>> THEN DictGet(counts, val, 0) ELSE 0

\* the four current counts of one lead row (lines 85-88)
InternalTotals(counts, vals) ==
    [company |-> InternalCount(counts.company, vals.company),
     tal |-> InternalCount(counts.tal, vals.tal),
     domain |-> InternalCount(counts.domain, vals.domain),
     root_domain |-> InternalCount(counts.root_domain, vals.root_domain)]

\* InternalViolations without the company check
InternalViolationsNoCompany(vals, totals, limit) ==
    (IF TraditionalExceeded(vals.tal, totals.tal, limit)
     THEN << <<"I", "n", "t", "e", "r", "n", "a", "l", " ", "C", "P", "C", " ", "E", "x", "c", "e", "e", "d", "e", "d", " ", "b", "y", " ", "T", "A", "L", " ", "C", "o", "m", "p", "a", "n", "y">> \o Ratio(totals.tal, limit) >>
     ELSE <<>>)
    \o (IF TraditionalExceeded(vals.root_domain, totals.root_domain, limit)
        THEN << <<"I", "n", "t", "e", "r", "n", "a", "l", " ", "C", "P", "C", " ", "E", "x", "c", "e", "e", "d", "e", "d", " ", "b", "y", " ", "R", "o", "o", "t", " ", "D", "o", "m", "a", "i", "n", " ", "'">> \o vals.root_domain \o <<"'">>
                \o Ratio(totals.root_domain, limit) >>
        ELSE <<>>)

\* the list "violations" of one lead row (lines 64, 96-106)
InternalViolations(vals, totals, limit) ==
    (IF TraditionalExceeded(vals.company, totals.company, limit)
     THEN << <<"I", "n", "t", "e", "r", "n", "a", "l", " ", "C", "P", "C", " ", "E", "x", "c", "e", "e", "d", "e", "d", " ", "b", "y", " ", "C", "o", "m", "p", "a", "n", "y">> \o Ratio(totals.company, limit) >>
     ELSE <<>>)
    \o (IF TraditionalExceeded(vals.tal, totals.tal, limit)
        THEN << <<"I", "n", "t", "e", "r", "n", "a", "l", " ", "C", "P", "C", " ", "E", "x", "c", "e", "e", "d", "e", "d", " ", "b", "y", " ", "T", "A", "L", " ", "C", "o", "m", "p", "a", "n", "y">> \o Ratio(totals.tal, limit) >>
        ELSE <<>>)
    \o (IF TraditionalExceeded(vals.root_domain, totals.root_domain, limit)
        THEN << <<"I", "n", "t", "e", "r", "n", "a", "l", " ", "C", "P", "C", " ", "E", "x", "c", "e", "e", "d", "e", "d", " ", "b", "y", " ", "R", "o", "o", "t", " ", "D", "o", "m", "a", "i", "n", " ", "'">> \o vals.root_domain \o <<"'">>
                \o Ratio(totals.root_domain, limit) >>
        ELSE IF TraditionalExceeded(vals.domain, totals.domain, limit)
        THEN << <<"I", "n", "t", "e", "r", "n", "a", "l", " ", "C", "P", "C", " ", "E", "x", "c", "e", "e", "d", "e", "d", " ", "b", "y", " ", "E", "x", "a", "c", "t", " ", "D", "o", "m", "a", "i", "n">> \o Ratio(totals.domain, limit) >>
        ELSE <<>>)

\* the four count cells written for one lead row (lines 91-94)
InternalCellsWritten(row, vals, totals) ==
    [row EXCEPT
        !["Internal CPC by Company"] = CountCell(vals.company, totals.company),
        !["Internal CPC by TAL Company"] = CountCell(vals.tal, totals.tal),
        !["Internal CPC by Domain"] = CountCell(vals.domain, totals.domain),
        !["Internal CPC by Root Domain"] = CountCell(vals.root_domain, totals.root_domain)]

\* the writes of the loop body to self.stats (lines 75, 82)
InternalStatsAfter(stats, vals) ==
    [stats EXCEPT
        !.internal_companies_checked =
            IF vals.company # <<>> THEN @ \cup {vals.company} ELSE @,
        !.internal_root_domains_checked =
            IF vals.root_domain # <<>> THEN @ \cup {vals.root_domain} ELSE @]

\* InternalCPCChecker(cpc_limit) constructed after the external checks and
\* run_internal_cpc_check entered: columns ensured, counters created
\* (data_processor.py lines 198-202, internal_checkers.py lines 32-60)
CpcIntStart ==
    /\ pc = "done"
    /\ ws' = [k \in DOMAIN ws |-> EnsureColumns(ws[k], InternalCpcColumns)]
    /\ pc' = "cpc_int"
    /\ i' = 1
    /\ UNCHANGED <<inputVars, cpcVars, checkVars>>

\* the worksheet row and statistics after the violation check (lines 108-118)
CpcIntVerdict(written, stats, vs) ==
    IF vs # <<>>
    THEN \E comment \in {Join(<<";", " ">>, vs)} :
            /\ ws' = [ws EXCEPT ![i] = disqualify_lead(written, InternalCPCExceeded, comment)]
            /\ calls' = Append(calls, [row |-> i, reason |-> InternalCPCExceeded,
                                       comment |-> comment])
            /\ internal_stats' = [stats EXCEPT !.internal_cpc_violations = @ + 1]
    ELSE /\ ws' = [ws EXCEPT ![i] = written]
         /\ internal_stats' = stats
         /\ UNCHANGED calls

\* one iteration of "for idx, lrow in enumerate(lead_data, start=2)" (lines 63-118)
CpcIntRow ==
    /\ pc = "cpc_int"
    /\ i <= Len(lead_data)
    /\ \E vals \in {InternalValues(lead_data[i])} :
       \E counts \in {LeadTraditionalAfter(internal_counts, vals)} :
       \E totals \in {InternalTotals(counts, vals)} :
       \E vs \in {InternalViolations(vals, totals, cpc_limit)} :
          /\ internal_counts' = counts
          /\ internal_violations' = Append(internal_violations, vs)
          /\ CpcIntVerdict(InternalCellsWritten(ws[i], vals, totals),
                           InternalStatsAfter(internal_stats, vals), vs)
    /\ i' = i + 1
    /\ UNCHANGED <<pc, inputVars, delivery_counts, delivery_counts_traditional, lead_counts,
                   lead_counts_traditional, cpc_stats, violations, phoneVars, dupVars>>

\* "return self.stats" (line 120)
CpcIntReturn ==
    /\ pc = "cpc_int"
    /\ i > Len(lead_data)
    /\ pc' = "returned"
    /\ UNCHANGED <<i, ws, inputVars, cpcVars, checkVars>>

(***************************************************************************)
(* The external CPC pass followed by the internal one (process_files)      *)
(***************************************************************************)
MaxBothLead == 3

\* lead rows resolved by root domain, by company name, and with a blank identity:
\* blank cells, and a company cell that normalizes to ""
BothLeadRows ==
    { [Company |-> <<"A", "c", "m", "e">>,  Domain |-> <<"a", "c", "m", "e", ".", "c", "o", "m">>, TAL |-> <<>>],
      [Company |-> <<"A", "c", "m", "e">>,  Domain |-> <<"b", "e", "t", "a", ".", "o", "r", "g">>, TAL |-> <<"B", "e", "t", "a", " ", "L", "L", "C">>],
      [Company |-> <<"A", "c", "m", "e">>,  Domain |-> <<>>,         TAL |-> <<>>],
      [Company |-> <<>>,      Domain |-> <<>>,         TAL |-> <<"B", "e", "t", "a", " ", "L", "L", "C">>],
      [Company |-> <<",", " ", "I", "n", "c">>, Domain |-> <<>>,         TAL |-> <<"B", "e", "t", "a", " ", "L", "L", "C">>] }

MaxBothDelivery == 1

\* process_files with check_cpc: DomainBasedChecker constructed and entered
InitBoth ==
    /\ pc = "cpc_delivery"
    /\ mapping \in CpcMappings
    /\ delivery_data \in SeqsUpTo(CpcDeliveryRows, MaxBothDelivery)
    /\ lead_data \in SeqsUpTo(BothLeadRows, MaxBothLead)
    /\ cpc_limit \in 1..MaxLimit
    /\ i = 1
    /\ ws = [k \in 1..Len(lead_data) |-> BlankRow]
    /\ CpcIdle
    /\ ChecksIdle

NextBoth ==
    \/ CpcDeliveryRow \/ CpcStartLeads \/ CpcLeadRow \/ CpcReturn
    \/ CpcIntStart \/ CpcIntRow \/ CpcIntReturn

SpecBoth == InitBoth /\ [][NextBoth]_vars


(***************************************************************************)
(* Properties of the external CPC pass followed by the internal one        *)
(***************************************************************************)
\* a row with no company and no domain after normalization
BlankIdentity(row) ==
    /\ RowCompany(row, mapping["lead_company"]) = <<>>
    /\ RowDomain(row, mapping["lead_domain"]) = <<>>

\* the external loop is about to process a blank-identity lead row
ExternalBlankStep ==
    pc = "cpc_lead" /\ i <= Len(lead_data) /\ BlankIdentity(lead_data[i])

\* the internal loop is about to process a blank-identity lead row
InternalBlankStep ==
    pc = "cpc_int" /\ i <= Len(lead_data) /\ BlankIdentity(lead_data[i])

\* number of lead rows up to row k with the TAL company of row k, 0 for a blank one
InternalTalRunningTotal(k) ==
    IF RowCompany(lead_data[k], mapping["lead_tal"]) = <<>> THEN 0
    ELSE CountRows(SubSeq(lead_data, 1, k), LAMBDA r : RowCompany(r, mapping["lead_tal"]),
                   RowCompany(lead_data[k], mapping["lead_tal"]))

\* C17 as stated: a lead record with a blank identity changes no CPC counter and is
\* not flagged, by the external and by the internal CPC check
C17_BlankIdentityNeverCounted ==
    [][/\ ExternalBlankStep =>
            /\ lead_counts' = lead_counts
            /\ lead_counts_traditional' = lead_counts_traditional
            /\ violations' = Append(violations, <<>>)
       /\ InternalBlankStep =>
            /\ internal_counts' = internal_counts
            /\ internal_violations' = Append(internal_violations, <<>>)]_vars

\* C17 amended: a lead record with a blank identity changes neither the unified
\* counter nor the company, domain and root-domain counters; it adds one to the
\* counter of its TAL company when that is mapped and non-blank, and it is flagged,
\* with one message, exactly when that TAL running total exceeds the limit
C17_BlankIdentityCountsTalOnly ==
    [][/\ ExternalBlankStep =>
            /\ lead_counts' = lead_counts
            /\ lead_counts_traditional' =
                 [lead_counts_traditional EXCEPT
                    !.tal = IncrIf(@, RowCompany(lead_data[i], mapping["lead_tal"]))]
            /\ Len(violations') = i
            /\ Len(violations'[i]) = (IF TalRunningTotal(i) > cpc_limit THEN 1 ELSE 0)
            /\ ws'[i]["CPC by Root Domain Primary"] = <<>>
       /\ InternalBlankStep =>
            /\ internal_counts' =
                 [internal_counts EXCEPT
                    !.tal = IncrIf(@, RowCompany(lead_data[i], mapping["lead_tal"]))]
            /\ Len(internal_violations') = i
            /\ Len(internal_violations'[i]) =
                 (IF InternalTalRunningTotal(i) > cpc_limit THEN 1 ELSE 0)]_vars

\* a blank-identity row flagged by both passes for its TAL company, and one spared
C17_Witness ==
    /\ pc = "returned"
    /\ \E k \in 1..Len(lead_data) :
          /\ BlankIdentity(lead_data[k])
          /\ violations[k] # <<>>
          /\ internal_violations[k] # <<>>
    /\ \E k \in 1..Len(lead_data) :
          /\ BlankIdentity(lead_data[k])
          /\ violations[k] = <<>>
          /\ internal_violations[k] = <<>>

\* "(total/limit)" as the messages print it
RatioText(total) == <<" ", "(">> \o IntToStr(total) \o <<"/">> \o IntToStr(cpc_limit) \o <<")">>

\* the unified message of lead row k, from its keys and running total
UnifiedMessageOf(k) ==
    IF RowRoot(lead_data[k], mapping["lead_domain"]) # <<>>
    THEN <<"C", "P", "C", " ", "E", "x", "c", "e", "e", "d", "e", "d", ":", " ", "R", "o", "o", "t", " ", "D", "o", "m", "a", "i", "n", " ", "'">> \o RowRoot(lead_data[k], mapping["lead_domain"])
         \o <<"'">> \o RatioText(UnifiedRunningTotal(k))
         \o (IF RowCompany(lead_data[k], mapping["lead_company"]) # <<>>
             THEN <<" ", "-", " ">> \o RowCompany(lead_data[k], mapping["lead_company"])
             ELSE <<>>)
    ELSE <<"C", "P", "C", " ", "E", "x", "c", "e", "e", "d", "e", "d", ":", " ">> \o RowCompany(lead_data[k], mapping["lead_company"])
         \o RatioText(UnifiedRunningTotal(k))

\* the legacy per-field messages of lead row k whose running total exceeds the limit
LegacyMessagesOf(k) ==
    (IF CompanyRunningTotal(k) > cpc_limit
     THEN { <<"C", "P", "C", " ", "E", "x", "c", "e", "e", "d", "e", "d", " ", "b", "y", " ", "C", "o", "m", "p", "a", "n", "y", " ", "N", "a", "m", "e">> \o RatioText(CompanyRunningTotal(k)) }
     ELSE {})
    \cup (IF TalRunningTotal(k) > cpc_limit
          THEN { <<"C", "P", "C", " ", "E", "x", "c", "e", "e", "d", "e", "d", " ", "b", "y", " ", "T", "A", "L", " ", "C", "o", "m", "p", "a", "n", "y", " ", "N", "a", "m", "e">> \o RatioText(TalRunningTotal(k)) }
          ELSE {})
    \cup (IF RootRunningTotal(k) > cpc_limit
          THEN { <<"C", "P", "C", " ", "E", "x", "c", "e", "e", "d", "e", "d", " ", "b", "y", " ", "R", "o", "o", "t", " ", "D", "o", "m", "a", "i", "n", " ", "'">>
                 \o RowRoot(lead_data[k], mapping["lead_domain"]) \o <<"'">>
                 \o RatioText(RootRunningTotal(k)) }
          ELSE IF DomainRunningTotal(k) > cpc_limit
          THEN { <<"C", "P", "C", " ", "E", "x", "c", "e", "e", "d", "e", "d", " ", "b", "y", " ", "E", "x", "a", "c", "t", " ", "D", "o", "m", "a", "i", "n">> \o RatioText(DomainRunningTotal(k)) }
          ELSE {})

\* the comments of the "Extra CPC" writes made for lead row k
ExtraCpcComments(k) ==
    SelectSeq(calls, LAMBDA c : c.row = k /\ c.reason = ExtraCPC)

\* one or two different messages of S joined by "; "
OneOrTwoOf(S) ==
    S \cup {pair[1] \o <<";", " ">> \o pair[2] : pair \in {p \in S \X S : p[1] # p[2]}}

\* C18: once the external pass has returned: when the unified check of a lead row fired, the comment written is the unified
\* message alone; otherwise, when a legacy total exceeds the limit, it is one or two
\* of the legacy messages (all of them when there are at most two); when none does,
\* nothing is written and the row is not flagged
C18_LegacySuppression ==
    pc = "done" =>
        \A k \in 1..Len(violations) :
            IF UnifiedRunningTotal(k) > cpc_limit
            THEN /\ Len(ExtraCpcComments(k)) = 1
                 /\ ExtraCpcComments(k)[1].comment = UnifiedMessageOf(k)
                 /\ violations[k] = << UnifiedMessageOf(k) >>
            ELSE IF LegacyMessagesOf(k) # {}
            THEN /\ Len(ExtraCpcComments(k)) = 1
                 /\ ExtraCpcComments(k)[1].comment \in OneOrTwoOf(LegacyMessagesOf(k))
                 /\ Cardinality(LegacyMessagesOf(k)) <= 2 =>
                       \A m1 \in LegacyMessagesOf(k) :
                           IsSubstring(m1, ExtraCpcComments(k)[1].comment)
                 /\ Range(violations[k]) = LegacyMessagesOf(k)
            ELSE /\ ExtraCpcComments(k) = <<>>
                 /\ violations[k] = <<>>
                 /\ ws[k][StatusHeader] = <<>>

\* a row with the unified message although a legacy total exceeds the limit too, and
\* a row with two legacy messages
C18_Witness ==
    /\ pc = "done"
    /\ \E k \in 1..Len(violations) :
          /\ UnifiedRunningTotal(k) > cpc_limit
          /\ LegacyMessagesOf(k) # {}
          /\ ExtraCpcComments(k)[1].comment = UnifiedMessageOf(k)
    /\ \E k \in 1..Len(violations) :
          /\ UnifiedRunningTotal(k) <= cpc_limit
          /\ Cardinality(LegacyMessagesOf(k)) = 2
          /\ ExtraCpcComments(k) # <<>>

\* the cell of a running total: the number, "" for a blank key
TotalCell(key, total) == IF key = <<>> THEN <<>> ELSE IntToStr(total)

\* C19: once the external pass has returned, each of the four columns of every lead
\* row holds the delivery count of the row's key plus the number of lead rows up to
\* and including it with the same key, or "" when the row's key is blank
C19_RunningTotalColumns ==
    pc = "done" =>
        \A k \in 1..Len(lead_data) :
            /\ ws[k]["CPC by Company Name"] =
                 TotalCell(RowCompany(lead_data[k], mapping["lead_company"]),
                           CompanyRunningTotal(k))
            /\ ws[k]["CPC by TAL Company Name"] =
                 TotalCell(RowCompany(lead_data[k], mapping["lead_tal"]), TalRunningTotal(k))
            /\ ws[k]["CPC by Domain"] =
                 TotalCell(RowDomain(lead_data[k], mapping["lead_domain"]),
                           DomainRunningTotal(k))
            /\ ws[k]["CPC by Root Domain"] =
                 TotalCell(RowRoot(lead_data[k], mapping["lead_domain"]), RootRunningTotal(k))

\* a returned pass with a delivery row and three lead rows of one company, the second
\* and third flagged, whose company column reads 2, 3, 4
C19_Witness ==
    /\ pc = "done"
    /\ Len(delivery_data) = 1
    /\ Len(lead_data) = 3
    /\ \A k \in 1..3 : ws[k]["CPC by Company Name"] = IntToStr(k + 1)
    /\ violations[1] = <<>>
    /\ violations[3] # <<>>
    /\ \E k \in 1..3 : ws[k]["CPC by TAL Company Name"] = <<>>

\* C20: with an empty delivery list the external pass and the internal pass flag the
\* same lead rows and report the same number of violations
C20_InternalIsExternalWithoutDelivery ==
    (pc = "returned" /\ delivery_data = <<>>) =>
        /\ \A k \in 1..Len(lead_data) : violations[k] = <<>> <=> internal_violations[k] = <<>>
        /\ cpc_stats.cpc_violations = internal_stats.internal_cpc_violations
        /\ \A k \in 1..Len(lead_data) :
              /\ ws[k]["Internal CPC by Company"] = ws[k]["CPC by Company Name"]
              /\ ws[k]["Internal CPC by TAL Company"] = ws[k]["CPC by TAL Company Name"]
              /\ ws[k]["Internal CPC by Domain"] = ws[k]["CPC by Domain"]
              /\ ws[k]["Internal CPC by Root Domain"] = ws[k]["CPC by Root Domain"]

\* both passes returned on an empty delivery list, with a flagged and a spared row, a
\* row flagged by the unified check, and a row flagged by a legacy check only
C20_Witness ==
    /\ pc = "returned"
    /\ delivery_data = <<>>
    /\ \E k \in 1..Len(lead_data) : violations[k] = <<>>
    /\ \E k \in 1..Len(lead_data) :
          violations[k] # <<>> /\ UnifiedRunningTotal(k) > cpc_limit
    /\ \E k \in 1..Len(lead_data) :
          violations[k] # <<>> /\ UnifiedRunningTotal(k) <= cpc_limit

\* the internal CPC loop leaves the status and the reason of every row alone
C27_Step ==
    pc = "cpc_int" =>
        \A k \in 1..Len(lead_data) :
            /\ ws'[k][StatusHeader] = ws[k][StatusHeader]
            /\ ws'[k][ReasonHeader] = ws[k][ReasonHeader]

\* on return: the rows flagged internally are among those flagged externally, with
\* the status and reason the external check wrote, and internal_cpc_violations is at
\* most cpc_violations
InternalWithinExternal ==
    pc = "returned" =>
        /\ \A k \in 1..Len(lead_data) :
              internal_violations[k] # <<>> =>
                  /\ violations[k] # <<>>
                  /\ ws[k][StatusHeader] = Disqualified
                  /\ ws[k][ReasonHeader] = ExtraCPC
        /\ internal_stats.internal_cpc_violations <= cpc_stats.cpc_violations

\* C27: in process_files every lead row flagged by the additional internal CPC check
\* was flagged by the external CPC check before it, for any delivery list; the
\* internal check changes no status and no DQ reason, and internal_cpc_violations
\* never exceeds cpc_violations.
C27_InternalWithinExternal == []InternalWithinExternal /\ [][C27_Step]_vars

\* both passes returned on a delivery row and lead rows of which one is flagged by
\* both checks and another by the external check alone
C27_Witness ==
    /\ pc = "returned"
    /\ delivery_data # <<>>
    /\ \E k \in 1..Len(lead_data) : internal_violations[k] # <<>> /\ violations[k] # <<>>
    /\ \E k \in 1..Len(lead_data) : internal_violations[k] = <<>> /\ violations[k] # <<>>
    /\ internal_stats.internal_cpc_violations < cpc_stats.cpc_violations


(***************************************************************************)
(* generate_email_permutations called on its own                           *)
(***************************************************************************)
\* first names: plain, in capitals, compound, with a title, with a character that
\* cleaning removes, and made only of such characters
PermFirstNames == { <<"J", "a", "n", "e">>, <<"J", "O">>, <<"B", "a", " ", "L", "o", "c">>, <<"D", "r", ".", " ", "L", "i", "s", "a">>, <<"J", "a", "n", "e", "#">>, <<"#">> }

\* last names: plain, compound, a generational suffix, and with an apostrophe
PermLastNames == { <<"D", "o", "e">>, <<"V", "a", "n", " ", "D", "o", "e">>, <<"J", "r">>, <<"O", "'", "D", "o", "e">> }

PermDomains == { <<"a", "c", "m", "e", ".", "c", "o", "m">>, <<" ", "A", "c", "m", "e", ".", "C", "O", "M", " ">>, <<>> }

\* a row_budget small enough for the token candidates of a two-token name to be cut
CutBudget == 1

\* the arguments of the calls: every name and domain under the default budget and under
\* a budget of zero, and single-token names under a budget that cuts
PermArgs ==
    [first_name : PermFirstNames, last_name : PermLastNames, domain : PermDomains,
     token_min_len : {1, 2}, row_budget : {0, DefaultRowBudget},
     enable_token_mode : BOOLEAN]
    \cup [first_name : { <<"J", "a", "n", "e">> }, last_name : { <<"D", "o", "e">>, <<"O", "'", "D", "o", "e">> },
          domain : { <<"a", "c", "m", "e", ".", "c", "o", "m">> }, token_min_len : {1, 2}, row_budget : 1..CutBudget,
          enable_token_mode : {TRUE}]

InitPerm ==
    /\ pc = "permutations"
    /\ args \in PermArgs
    /\ result = <<>>
    /\ PassesIdle

\* generate_email_permutations(first_name, last_name, domain, token_min_len, row_budget,
\* enable_token_mode), called a first and a second time on the same arguments
PermutationsCall ==
    /\ pc = "permutations"
    /\ Len(result) < 2
    /\ \E returned \in generate_email_permutations(args.first_name, args.last_name,
                                                   args.domain, args.token_min_len,
                                                   args.row_budget, args.enable_token_mode) :
          result' = Append(result, returned)
    /\ UNCHANGED <<pc, i, ws, passInputs, args, cpcVars, checkVars>>

NextPerm == PermutationsCall

SpecPerm == InitPerm /\ [][NextPerm]_vars

(***************************************************************************)
(* Claims about generate_email_permutations                                *)
(***************************************************************************)
\* C12: generate_email_permutations is a function of its arguments: a second call on
\* the same (first, last, domain, token_min_len, row_budget, enable_token_mode) returns
\* the same set as the first, whichever order equal-length tokens are visited in and
\* whichever candidates are cut when the new candidates exceed the remaining budget.
C12_Deterministic ==
    (pc = "permutations" /\ Len(result) = 2) => result[1] = result[2]

\* a name of one token: not blank and without whitespace
SingleToken(name) == name # <<>> /\ \A k \in 1..Len(name) : ~IsSpace(name[k])

\* a name whose lowercased characters are all kept by the cleaning [^a-z0-9._-]
OnlyNameChars(name) == \A k \in 1..Len(name) : LowerChar(name[k]) \in NameChars

\* the candidates FL@D, F.L@D, L.F@D and (initial of F)L@D
Contained(F, L, D) ==
    { Pattern(F, <<>>, L, D), Pattern(F, <<".">>, L, D), Pattern(L, <<".">>, F, D),
      Pattern(Initial(F), <<>>, L, D) }

\* the call returned and its set holds the four candidates
Contains(returned, F, L, D) ==
    ~returned.raised /\ Contained(F, L, D) \subseteq returned.value

\* the arguments are a single-token first name, a single-token last name that is no
\* title or suffix, and a non-blank domain
ContainmentCase ==
    /\ pc = "permutations"
    /\ Len(result) >= 1
    /\ SingleToken(args.first_name)
    /\ SingleToken(args.last_name)
    /\ Lower(args.last_name) \notin IGNORE_SUFFIXES
    /\ Strip(args.domain) # <<>>

\* C14 as stated: for a single-token first name F, a single-token last name L that is
\* no title or suffix and a non-blank domain D, the returned set contains the
\* lowercased FL@D, F.L@D, L.F@D and (initial of F)L@D.
C14_ContainsLowercased ==
    ContainmentCase =>
        Contains(result[1], Lower(args.first_name), Lower(args.last_name),
                 Lower(args.domain))

\* C14, amended: when F and L are made only of ASCII letters, digits, ".", "_" and "-",
\* the returned set contains the four candidates built from the lowercased F and L and
\* from D stripped of surrounding whitespace and lowercased; for ("Jane", "Doe",
\* "acme.com") these are janedoe@acme.com, jane.doe@acme.com, doe.jane@acme.com and
\* jdoe@acme.com.
C14_ContainsCleanNames ==
    /\ (ContainmentCase /\ OnlyNameChars(args.first_name) /\ OnlyNameChars(args.last_name)) =>
           Contains(result[1], Lower(args.first_name), Lower(args.last_name),
                    Lower(Strip(args.domain)))
    /\ (/\ pc = "permutations"
        /\ Len(result) >= 1
        /\ args.first_name = <<"J", "a", "n", "e">>
        /\ args.last_name = <<"D", "o", "e">>
        /\ args.domain = <<"a", "c", "m", "e", ".", "c", "o", "m">>) =>
           /\ ~result[1].raised
           /\ { <<"j", "a", "n", "e", "d", "o", "e", "@", "a", "c", "m", "e", ".", "c", "o", "m">>, <<"j", "a", "n", "e", ".", "d", "o", "e", "@", "a", "c", "m", "e", ".", "c", "o", "m">>, <<"d", "o", "e", ".", "j", "a", "n", "e", "@", "a", "c", "m", "e", ".", "c", "o", "m">>,
                <<"j", "d", "o", "e", "@", "a", "c", "m", "e", ".", "c", "o", "m">> } \subseteq result[1].value

\* a call on a first name in capitals and a domain with surrounding whitespace has
\* returned the lowercased candidates
C14_Witness ==
    /\ ContainmentCase
    /\ args.first_name = <<"J", "O">>
    /\ args.last_name = <<"D", "o", "e">>
    /\ args.domain = <<" ", "A", "c", "m", "e", ".", "C", "O", "M", " ">>
    /\ ~result[1].raised
    /\ <<"j", "o", ".", "d", "o", "e", "@", "a", "c", "m", "e", ".", "c", "o", "m">> \in result[1].value
    /\ <<"j", "d", "o", "e", "@", "a", "c", "m", "e", ".", "c", "o", "m">> \in result[1].value

(***************************************************************************)
(* The external duplicate pass on rows with names                          *)
(***************************************************************************)
MaxDupLead == 3

MaxDupDelivery == 2

\* every role mapped, the delivery names too
NamesMapped == [AllMapped EXCEPT !.delivery_first = "First", !.delivery_last = "Last"]

DupMappings == { NamesMapped, AllMapped }

\* a DuplicateChecker constructed and run_duplicate_check entered
InitDup ==
    /\ pc = "dup_ext_build"
    /\ mapping \in DupMappings
    /\ delivery_data \in SeqsUpTo(DupDeliveryRows, MaxDupDelivery)
    /\ lead_data \in SeqsUpTo(DupLeadRows, MaxDupLead)
    /\ cpc_limit = 1
    /\ i = 1
    /\ ws = [k \in 1..Len(lead_data) |-> CheckSheetRow(lead_data[k])]
    /\ CpcIdle
    /\ ChecksIdle

NextDup == DupExtBuild \/ DupExtRow \/ DupExtSkip \/ DupExtReturn

SpecDup == InitDup /\ [][NextDup]_vars

(***************************************************************************)
(* Claims about run_duplicate_check                                        *)
(***************************************************************************)
\* lead row k has the email or the profile link of a delivery row
DeliveryExactMatch(k) ==
    \/ /\ DomainValue(lead_data[k], mapping["lead_email"]) # <<>>
       /\ DomainValue(lead_data[k], mapping["lead_email"])
            \in ColumnSignatures(delivery_data, mapping["delivery_email"])
    \/ /\ DomainValue(lead_data[k], mapping["lead_linkedin"]) # <<>>
       /\ DomainValue(lead_data[k], mapping["lead_linkedin"])
            \in ColumnSignatures(delivery_data, mapping["delivery_linkedin"])

\* the delivery rows whose permutation generation raises
RaisingDeliveryRows ==
    { k \in 1..Len(delivery_data) :
        /\ can_check_permutations(mapping)
        /\ Raised \in RowPermutations(delivery_data[k], mapping["delivery_first"],
                                      mapping["delivery_last"], mapping["delivery_domain"]) }

\* the candidates generated for the delivery rows whose generation returns
DeliveryCandidates ==
    IF can_check_permutations(mapping)
    THEN UNION { returned.value :
                   returned \in UNION { RowPermutations(delivery_data[k],
                                                        mapping["delivery_first"],
                                                        mapping["delivery_last"],
                                                        mapping["delivery_domain"]) :
                                          k \in 1..Len(delivery_data) } }
    ELSE {}

\* the generation for lead row k is attempted and raises
LeadRaises(k) ==
    /\ can_check_permutations(mapping)
    /\ ~DeliveryExactMatch(k)
    /\ Raised \in RowPermutations(lead_data[k], mapping["lead_first"],
                                  mapping["lead_last"], mapping["lead_domain"])

\* lead row k has no exact match and a generated candidate of a delivery row
DeliveryPermutationMatch(k) ==
    /\ can_check_permutations(mapping)
    /\ ~DeliveryExactMatch(k)
    /\ \E returned \in RowPermutations(lead_data[k], mapping["lead_first"],
                                       mapping["lead_last"], mapping["lead_domain"]) :
          returned.value \cap DeliveryCandidates # {}

\* lead row k has the email or the profile link of an earlier lead row that the pass
\* did not skip
RepeatsEarlier(k) ==
    \E j \in 1..(k - 1) :
       /\ lead_data[j].Status # Disqualified
       /\ \/ /\ DomainValue(lead_data[k], mapping["lead_email"]) # <<>>
             /\ DomainValue(lead_data[k], mapping["lead_email"])
                  = DomainValue(lead_data[j], mapping["lead_email"])
          \/ /\ DomainValue(lead_data[k], mapping["lead_linkedin"]) # <<>>
             /\ DomainValue(lead_data[k], mapping["lead_linkedin"])
                  = DomainValue(lead_data[j], mapping["lead_linkedin"])

\* the pass handles lead row i in this step
LeadRowStep == pc = "dup_ext" /\ i <= Len(lead_data) /\ i' = i + 1

\* the step disqualified lead row i with the given reason
Flagged(reason) ==
    /\ Len(calls') = Len(calls) + 1
    /\ calls'[Len(calls')].row = i
    /\ calls'[Len(calls')].reason = reason
    /\ ws'[i][StatusHeader] = Disqualified
    /\ ws'[i][ReasonHeader] = reason

C15_Step ==
    LeadRowStep =>
        /\ Len(calls') <= Len(calls) + 1
        /\ (/\ ws[i][StatusHeader] # Disqualified
            /\ DeliveryExactMatch(i) \/ DeliveryPermutationMatch(i)
            /\ RepeatsEarlier(i)) =>
               /\ Flagged(SameProspectDuplicate)
               /\ dup_stats'.duplicates_found = dup_stats.duplicates_found + 1
               /\ dup_stats'.internal_duplicates = dup_stats.internal_duplicates
        /\ (Len(calls') > Len(calls) /\ calls'[Len(calls')].reason = InternalDuplicate) =>
               /\ ~DeliveryExactMatch(i)
               /\ ~DeliveryPermutationMatch(i)
               /\ dup_stats'.duplicates_found = dup_stats.duplicates_found

\* C15: in run_duplicate_check each lead row triggers at most one violation write; a row
\* that matches a delivery signature and also repeats an earlier lead email or link gets
\* the reason "Same Prospect Duplicate" and is counted in duplicates_found only, never
\* in internal_duplicates; "Internal Duplicate" is used only when no delivery match
\* exists.
C15_ExternalPriority == [][C15_Step]_vars

\* the pass has ended after flagging as "Same Prospect Duplicate" a row with a delivery
\* email that repeats an earlier lead email, and another row for a permutation match;
\* no row counts as internal duplicate
C15_Witness ==
    /\ pc = "done"
    /\ mapping = NamesMapped
    /\ dup_stats.internal_duplicates = 0
    /\ dup_stats.duplicates_found = 3
    /\ \E a, b \in 1..Len(calls) :
          /\ calls[a].reason = SameProspectDuplicate
          /\ RepeatsEarlier(calls[a].row)
          /\ IsSubstring(<<"E", "m", "a", "i", "l", " ", "m", "a", "t", "c", "h", " ", "i", "n", " ", "d", "e", "l", "i", "v", "e", "r", "y", ";", " ", "I", "n", "t", "e", "r", "n", "a", "l", " ", "d", "u", "p", "l", "i", "c", "a", "t", "e", " ", "e", "m", "a", "i", "l">>,
                         calls[a].comment)
          /\ calls[b].reason = SameProspectDuplicate
          /\ IsSubstring(<<"E", "m", "a", "i", "l", " ", "p", "e", "r", "m", "u", "t", "a", "t", "i", "o", "n", " ", "m", "a", "t", "c", "h", " ", "i", "n", " ", "d", "e", "l", "i", "v", "e", "r", "y">>, calls[b].comment)

C16_Step ==
    /\ (pc = "dup_ext_build" /\ pc' # pc) =>
          /\ pc' = "dup_ext"
          /\ i' = 1
          /\ dup_stats'.permutation_errors =
                dup_stats.permutation_errors + Cardinality(RaisingDeliveryRows)
          /\ delivery_signatures'.email_permutations = DeliveryCandidates
    /\ (LeadRowStep /\ ws[i][StatusHeader] # Disqualified /\ LeadRaises(i)) =>
          /\ dup_stats'.permutation_errors = dup_stats.permutation_errors + 1
          /\ dup_stats'.duplicates_found = dup_stats.duplicates_found
          /\ dup_stats'.duplicate_details = dup_stats.duplicate_details
          /\ IF RepeatsEarlier(i) THEN Flagged(InternalDuplicate)
             ELSE calls' = calls /\ ws' = ws
          /\ DomainValue(lead_data[i], mapping["lead_email"]) # <<>> =>
                DomainValue(lead_data[i], mapping["lead_email"]) \in lead_signatures'.emails
          /\ DomainValue(lead_data[i], mapping["lead_linkedin"]) # <<>> =>
                DomainValue(lead_data[i], mapping["lead_linkedin"])
                   \in lead_signatures'.linkedin
    /\ (LeadRowStep /\ ~(ws[i][StatusHeader] # Disqualified /\ LeadRaises(i))) =>
          dup_stats'.permutation_errors = dup_stats.permutation_errors

\* C16: when the permutation generation raises for a delivery or lead record,
\* permutation_errors increases by exactly one, the pass continues over the remaining
\* records, the record has no permutation-derived signature (it is not flagged as a
\* permutation match), and a lead record is still checked for an internal exact
\* duplicate and still adds its email and link to the running lead signatures.
C16_FailureContained == [][C16_Step]_vars

\* the pass has ended after the generation raised for a delivery row and for two lead
\* rows, the second of them flagged as internal duplicate, and after a later row was
\* flagged as a permutation match
C16_Witness ==
    /\ pc = "done"
    /\ mapping = NamesMapped
    /\ RaisingDeliveryRows # {}
    /\ Len(lead_data) = 3
    /\ LeadRaises(1)
    /\ LeadRaises(2)
    /\ dup_stats.permutation_errors = Cardinality(RaisingDeliveryRows) + 2
    /\ Len(calls) = 2
    /\ calls[1].row = 2
    /\ calls[1].reason = InternalDuplicate
    /\ calls[2].row = 3
    /\ IsSubstring(<<"E", "m", "a", "i", "l", " ", "p", "e", "r", "m", "u", "t", "a", "t", "i", "o", "n", " ", "m", "a", "t", "c", "h", " ", "i", "n", " ", "d", "e", "l", "i", "v", "e", "r", "y">>, calls[2].comment)

(***************************************************************************)
(* Two runs of the external CPC pass on the same inputs                    *)
(***************************************************************************)
\* what a run leaves behind: the stats returned and the cells of the lead worksheet
RunOutcome == [stats |-> cpc_stats, violations |-> calls, cells |-> ws]

\* process_files has run the CPC pass: its outcome is kept, and after the first run a
\* new DomainBasedChecker is constructed and run on the same delivery list, lead list,
\* mapping and limit with an unmarked worksheet
CpcRunAgain ==
    /\ pc = "done"
    /\ Len(result) < 2
    /\ result' = Append(result, RunOutcome)
    /\ IF Len(result) = 0
       THEN /\ pc' = "cpc_delivery"
            /\ i' = 1
            /\ ws' = [k \in 1..Len(lead_data) |-> BlankRow]
            /\ delivery_counts' = <<>>
            /\ delivery_counts_traditional' = EmptyTraditional
            /\ lead_counts' = <<>>
            /\ lead_counts_traditional' = EmptyTraditional
            /\ cpc_stats' = EmptyCpcStats
            /\ violations' = <<>>
            /\ calls' = <<>>
       ELSE /\ pc' = "returned"
            /\ UNCHANGED <<i, ws, delivery_counts, delivery_counts_traditional,
                           lead_counts, lead_counts_traditional, cpc_stats, violations,
                           calls>>
    /\ UNCHANGED <<passInputs, args, internalVars, phoneVars, dupVars>>

InitRuns == InitCPC

NextRuns == CpcDeliveryRow \/ CpcStartLeads \/ CpcLeadRow \/ CpcReturn \/ CpcRunAgain

SpecRuns == InitRuns /\ [][NextRuns]_vars

(***************************************************************************)
(* Claims about two runs of a checker                                      *)
(***************************************************************************)
\* C11: for a fixed delivery list, lead list, mapping and limit, two runs of a checker
\* produce identical stats, flag the same rows and write identical reason and comment
\* texts, whichever order the unordered sets are iterated in.
C11_Deterministic ==
    (pc = "returned" /\ Len(result) = 2) => result[1] = result[2]

(***************************************************************************)
(* The phone passes on rows of two phone numbers                           *)
(***************************************************************************)
MaxPhoneLead == 3

MaxPhoneDelivery == 2

\* a phone checker of process_files / process_files_internal constructed and its pass
\* entered
InitPhone ==
    /\ pc \in {"phone_build", "phone_int"}
    /\ mapping = AllMapped
    /\ delivery_data \in SeqsUpTo(PhoneDeliveryRows, MaxPhoneDelivery)
    /\ pc = "phone_int" => delivery_data = <<>>
    /\ lead_data \in SeqsUpTo(PhoneLeadRows, MaxPhoneLead)
    /\ cpc_limit = 1
    /\ i = 1
    /\ ws = [k \in 1..Len(lead_data) |-> CheckSheetRow(lead_data[k])]
    /\ CpcIdle
    /\ ChecksIdle

NextPhone ==
    \/ PhoneIntRow \/ PhoneIntReturn
    \/ PhoneBuildRow \/ PhoneBuildReturn \/ PhoneCheckRow \/ PhoneCheckReturn

SpecPhone == InitPhone /\ [][NextPhone]_vars

(***************************************************************************)
(* Claims about the phone passes                                           *)
(***************************************************************************)
\* the identity the external phone check gives a delivery row / a lead row
DeliveryIdentity(row) ==
    get_domain_identifier(row, mapping["delivery_company"], mapping["delivery_domain"])

LeadIdentity(row) ==
    get_domain_identifier(row, mapping["lead_company"], mapping["lead_domain"])

\* the delivery rows with the given phone and a non-blank identity
StoredDeliveryRows(phone) ==
    { k \in 1..Len(delivery_data) :
        /\ mapping["delivery_phone"] # NotAvailable
        /\ phone # <<>>
        /\ RowPhone(delivery_data[k], mapping["delivery_phone"]) = phone
        /\ DeliveryIdentity(delivery_data[k]) # <<>> }

\* the delivery phone map holds, per phone, the first delivery row with a non-blank
\* identity
FirstDeliveryRows ==
    /\ \A phone \in DOMAIN delivery_phone_to_domain :
          /\ StoredDeliveryRows(phone) # {}
          /\ delivery_phone_to_domain[phone].identifier
               = DeliveryIdentity(delivery_data[Min(StoredDeliveryRows(phone))])
    /\ \A k \in 1..Len(delivery_data) :
          StoredDeliveryRows(RowPhone(delivery_data[k], mapping["delivery_phone"])) # {}
             => RowPhone(delivery_data[k], mapping["delivery_phone"])
                   \in DOMAIN delivery_phone_to_domain

\* lead row k has a phone of the delivery map and a non-blank identity that differs
\* from the stored one
ExternalConflictExpected(k) ==
    /\ StoredDeliveryRows(RowPhone(lead_data[k], mapping["lead_phone"])) # {}
    /\ LeadIdentity(lead_data[k]) # <<>>
    /\ LeadIdentity(lead_data[k])
         # DeliveryIdentity(delivery_data[
               Min(StoredDeliveryRows(RowPhone(lead_data[k], mapping["lead_phone"])))])

C21_Step ==
    pc = "phone_check" =>
        /\ delivery_phone_to_domain' = delivery_phone_to_domain
        /\ FirstDeliveryRows
        /\ (i <= Len(lead_data) /\ i' = i + 1) =>
              /\ ws'[i][PhoneColumn] # <<>> <=> ExternalConflictExpected(i)
              /\ \A k \in 1..Len(lead_data) : k # i => ws'[k] = ws[k]
        /\ \A j, k \in 1..Len(lead_data) :
              (/\ j < k
               /\ k < i
               /\ RowPhone(lead_data[j], mapping["lead_phone"])
                    = RowPhone(lead_data[k], mapping["lead_phone"])
               /\ StoredDeliveryRows(RowPhone(lead_data[k], mapping["lead_phone"])) = {})
              => ws[j][PhoneColumn] = <<>> /\ ws[k][PhoneColumn] = <<>>

\* C21: check_phone_conflicts never adds or changes an entry of the delivery phone map,
\* which holds, per phone, the first delivery row with a non-blank identity; a lead row
\* is flagged exactly when its phone is in that map and its own non-blank identity
\* differs from the stored one; two lead rows sharing a phone that is absent from the
\* map are never flagged, whatever their identities.
C21_NoInternalAccumulation == [][C21_Step]_vars

\* the external check has ended on a delivery list with two identities under one phone:
\* a lead row of that phone is flagged against the first of them, and two lead rows of
\* different identities sharing another phone are not flagged
C21_Witness ==
    /\ pc = "done"
    /\ Len(delivery_data) = 2
    /\ DeliveryIdentity(delivery_data[1]) # <<>>
    /\ DeliveryIdentity(delivery_data[2]) # <<>>
    /\ DeliveryIdentity(delivery_data[1]) # DeliveryIdentity(delivery_data[2])
    /\ \E k \in 1..Len(lead_data) :
          /\ ws[k][PhoneColumn] # <<>>
          /\ LeadIdentity(lead_data[k]) = DeliveryIdentity(delivery_data[2])
    /\ \E j, k \in 1..Len(lead_data) :
          /\ j < k
          /\ RowPhone(lead_data[j], mapping["lead_phone"]) # <<>>
          /\ RowPhone(lead_data[j], mapping["lead_phone"])
               = RowPhone(lead_data[k], mapping["lead_phone"])
          /\ RowPhone(lead_data[j], mapping["lead_phone"])
               \notin DOMAIN delivery_phone_to_domain
          /\ LeadIdentity(lead_data[j]) # <<>>
          /\ LeadIdentity(lead_data[k]) # <<>>
          /\ LeadIdentity(lead_data[j]) # LeadIdentity(lead_data[k])
          /\ ws[j][PhoneColumn] = <<>>
          /\ ws[k][PhoneColumn] = <<>>

\* the identity the internal phone check gives a lead row
InternalIdentity(row) ==
    phone_get_company_identifier(row, mapping["lead_company"], mapping["lead_domain"])

\* the lead rows before row k with the given phone and a non-blank identity
EarlierPhoneRows(phone, k) ==
    { j \in 1..(k - 1) :
        /\ phone # <<>>
        /\ RowPhone(lead_data[j], mapping["lead_phone"]) = phone
        /\ InternalIdentity(lead_data[j]) # <<>> }

\* the entry of each phone is the earliest lead row handled so far with that phone and
\* a non-blank identity
FirstSeenStored ==
    /\ \A phone \in DOMAIN phone_to_company :
          /\ EarlierPhoneRows(phone, i) # {}
          /\ phone_to_company[phone].row = Min(EarlierPhoneRows(phone, i)) + 1
          /\ phone_to_company[phone].identifier
               = InternalIdentity(lead_data[Min(EarlierPhoneRows(phone, i))])
    /\ \A j \in 1..(i - 1) :
          EarlierPhoneRows(RowPhone(lead_data[j], mapping["lead_phone"]), i) # {}
             => RowPhone(lead_data[j], mapping["lead_phone"]) \in DOMAIN phone_to_company

\* lead row k has a non-blank identity that differs from the one of the earliest row
\* of its phone
InternalConflictExpected(k) ==
    /\ EarlierPhoneRows(RowPhone(lead_data[k], mapping["lead_phone"]), k) # {}
    /\ InternalIdentity(lead_data[k]) # <<>>
    /\ InternalIdentity(lead_data[k])
         # InternalIdentity(lead_data[
               Min(EarlierPhoneRows(RowPhone(lead_data[k], mapping["lead_phone"]), k))])

\* the text that ends a message naming the earliest row of the phone of lead row k
NamesStoredRow(k) ==
    <<" ", "a", "t", " ", "r", "o", "w", " ">>
    \o IntToStr(Min(EarlierPhoneRows(RowPhone(lead_data[k], mapping["lead_phone"]), k)) + 1)

C23_Step ==
    pc = "phone_int" =>
        /\ FirstSeenStored
        /\ \A phone \in DOMAIN phone_to_company :
              /\ phone \in DOMAIN phone_to_company'
              /\ phone_to_company'[phone] = phone_to_company[phone]
        /\ (i <= Len(lead_data) /\ i' = i + 1) =>
              /\ IF InternalConflictExpected(i)
                 THEN EndsWith(ws'[i][InternalPhoneColumn], NamesStoredRow(i))
                 ELSE ws'[i][InternalPhoneColumn] = <<>>
              /\ \A k \in 1..Len(lead_data) : k # i => ws'[k] = ws[k]
              /\ (\/ RowPhone(lead_data[i], mapping["lead_phone"]) = <<>>
                  \/ InternalIdentity(lead_data[i]) = <<>>) =>
                    phone_to_company' = phone_to_company

\* C23: in the internal phone check the entry stored for a phone is the earliest lead
\* row with that normalized phone and a non-blank identity and is never replaced; a
\* later row is flagged exactly when its non-blank identity differs from the stored
\* one, and the message names the stored row; of three rows A (identity X), B
\* (identity Y), C (identity X) sharing a phone, B is flagged against A and C is not;
\* rows with a blank phone or a blank identity are neither flagged nor stored.
C23_FirstSeenOnly == [][C23_Step]_vars

\* the internal check has ended on three rows of one phone with the identities X, Y, X:
\* the second is flagged against row 2 of the sheet and the third is not flagged
C23_Witness ==
    /\ pc = "done"
    /\ phone_to_company # <<>>
    /\ Len(lead_data) = 3
    /\ RowPhone(lead_data[1], mapping["lead_phone"]) # <<>>
    /\ RowPhone(lead_data[2], mapping["lead_phone"])
         = RowPhone(lead_data[1], mapping["lead_phone"])
    /\ RowPhone(lead_data[3], mapping["lead_phone"])
         = RowPhone(lead_data[1], mapping["lead_phone"])
    /\ InternalIdentity(lead_data[1]) # <<>>
    /\ InternalIdentity(lead_data[2]) # <<>>
    /\ InternalIdentity(lead_data[2]) # InternalIdentity(lead_data[1])
    /\ InternalIdentity(lead_data[3]) = InternalIdentity(lead_data[1])
    /\ EndsWith(ws[2][InternalPhoneColumn], <<" ", "a", "t", " ", "r", "o", "w", " ", "2">>)
    /\ ws[3][InternalPhoneColumn] = <<>>

\* lead row k and the delivery row stored for its phone have no usable domain, and
\* their company names normalize to the same non-empty string
SameNormalizedCompany(k) ==
    /\ RowPhone(lead_data[k], mapping["lead_phone"]) \in DOMAIN delivery_phone_to_domain
    /\ PhoneDomain(lead_data[k], mapping["lead_domain"]) = <<>>
    /\ Lower(delivery_phone_to_domain[RowPhone(lead_data[k], mapping["lead_phone"])].domain)
         \in IgnoredDomains
    /\ NormalizeCompany(CellOf(lead_data[k], mapping["lead_company"])) # <<>>
    /\ NormalizeCompany(CellOf(lead_data[k], mapping["lead_company"]))
         = NormalizeCompany(
              delivery_phone_to_domain[RowPhone(lead_data[k], mapping["lead_phone"])].company)

\* C26: in the external phone check the company fallback identity is the normalized
\* company: when neither record has a usable domain, a delivery row and a lead row with
\* the same phone whose company names normalize to the same string are the same
\* identity, and no phone conflict is reported for the lead row.
C26_NormalizedCompanyFallback ==
    pc = "phone_check" =>
        \A k \in 1..Len(lead_data) :
            (k < i /\ SameNormalizedCompany(k)) => ws[k][PhoneColumn] = <<>>

\* the number of lead rows process_files counts as passed: those whose status is not
\* "Disqualified"
PassedOf(sheet) == Cardinality({k \in 1..Len(sheet) : sheet[k][StatusHeader] # Disqualified})

\* the cells of a sheet row that a phone check does not own
WriterCells(sheet_row) ==
    <<sheet_row[StatusHeader], sheet_row[ReasonHeader], sheet_row[CommentHeader]>>

C29_Step ==
    pc \in {"phone_int", "phone_build", "phone_check"} =>
        /\ \A k \in 1..Len(lead_data) : WriterCells(ws'[k]) = WriterCells(ws[k])
        /\ PassedOf(ws') = PassedOf(ws)
        /\ UNCHANGED <<cpcVars, dupVars, calls>>
        /\ pc = "phone_int" =>
              \A k \in 1..Len(lead_data) : ws'[k][PhoneColumn] = ws[k][PhoneColumn]
        /\ pc # "phone_int" =>
              \A k \in 1..Len(lead_data) :
                 ws'[k][InternalPhoneColumn] = ws[k][InternalPhoneColumn]

\* C29: the internal and external phone checks leave every row's Lead Status, DQ Reason
\* and QA Comment unchanged and touch no CPC or duplicate counter; they write only
\* their conflict-message column and their own phone statistics, so a row flagged only
\* for a phone conflict is still counted as passed.
C29_NeverDisqualifies == [][C29_Step]_vars

\* a phone pass has ended with a conflict written on a row that is counted as passed,
\* next to a row disqualified before the pass
C29_Witness ==
    /\ pc = "done"
    /\ phone_stats.phone_conflicts > 0
    /\ \E j, k \in 1..Len(lead_data) :
          /\ ws[k][PhoneColumn] # <<>> \/ ws[k][InternalPhoneColumn] # <<>>
          /\ ws[k][StatusHeader] # Disqualified
          /\ ws[j][StatusHeader] = Disqualified
          /\ PassedOf(ws) = Len(lead_data) - 1

(***************************************************************************)
(* CPCChecker: CPC_Duplicate_Helper/cpc_checker.py                         *)
(***************************************************************************)
\* CPCChecker.stats as constructed (lines 11-14)
EmptyCheckerStats == [cpc_violations |-> 0, companies_checked |-> {}]

\* the four values of one lead row (lines 46-49)
CheckerValues(lrow) ==
    [company |-> InternalCompanyValue(lrow, mapping["lead_company"]),
     tal |-> InternalCompanyValue(lrow, mapping["lead_tal"]),
     domain |-> DomainValue(lrow, mapping["lead_domain"]),
     root_domain |-> RootDomainOf(DomainValue(lrow, mapping["lead_domain"]))]

\* the delivery counters after one delivery row (lines 113-134)
CheckerDeliveryAfter(counts, drow) ==
    [company |-> IncrIf(counts.company,
                        InternalCompanyValue(drow, mapping["delivery_company"])),
     tal |-> IncrIf(counts.tal, InternalCompanyValue(drow, mapping["delivery_tal"])),
     domain |-> IncrIf(counts.domain, DomainValue(drow, mapping["delivery_domain"])),
     root_domain |-> IncrIf(counts.root_domain,
                            RootDomainOf(DomainValue(drow, mapping["delivery_domain"])))]

\* the list "violations" of one lead row (lines 43, 78-88)
CheckerViolations(vals, totals, limit) ==
    (IF TraditionalExceeded(vals.company, totals.company, limit)
     THEN << <<"C", "P", "C", " ", "E", "x", "c", "e", "e", "d", "e", "d", " ", "b", "y", " ", "C", "o", "m", "p", "a", "n", "y", " ", "N", "a", "m", "e">> \o Ratio(totals.company, limit) >>
     ELSE <<>>)
    \o (IF TraditionalExceeded(vals.tal, totals.tal, limit)
        THEN << <<"C", "P", "C", " ", "E", "x", "c", "e", "e", "d", "e", "d", " ", "b", "y", " ", "T", "A", "L", " ", "C", "o", "m", "p", "a", "n", "y", " ", "N", "a", "m", "e">> \o Ratio(totals.tal, limit) >>
        ELSE <<>>)
    \o (IF TraditionalExceeded(vals.root_domain, totals.root_domain, limit)
        THEN << <<"C", "P", "C", " ", "E", "x", "c", "e", "e", "d", "e", "d", " ", "b", "y", " ", "R", "o", "o", "t", " ", "D", "o", "m", "a", "i", "n", " ", "'">> \o vals.root_domain \o <<"'">>
                \o Ratio(totals.root_domain, limit) >>
        ELSE IF TraditionalExceeded(vals.domain, totals.domain, limit)
        THEN << <<"C", "P", "C", " ", "E", "x", "c", "e", "e", "d", "e", "d", " ", "b", "y", " ", "E", "x", "a", "c", "t", " ", "D", "o", "m", "a", "i", "n">> \o Ratio(totals.domain, limit) >>
        ELSE <<>>)

\* the four count cells written for one lead row (lines 72-75)
CheckerCellsWritten(row, vals, totals) ==
    [row EXCEPT
        !["CPC by Company Name"] = CountCell(vals.company, totals.company),
        !["CPC by TAL Company Name"] = CountCell(vals.tal, totals.tal),
        !["CPC by Domain"] = CountCell(vals.domain, totals.domain),
        !["CPC by Root Domain"] = CountCell(vals.root_domain, totals.root_domain)]

\* the four columns ensured before the loop (lines 23-26)
CheckerColumns == <<"CPC by Company Name", "CPC by TAL Company Name", "CPC by Domain",
                    "CPC by Root Domain">>

\* one iteration of "for drow in delivery_data" of _count_delivery_occurrences
\* (lines 113-134)
CheckerDeliveryRow ==
    /\ pc = "checker_delivery"
    /\ i <= Len(delivery_data)
    /\ delivery_counts_traditional' =
          CheckerDeliveryAfter(delivery_counts_traditional, delivery_data[i])
    /\ i' = i + 1
    /\ UNCHANGED <<pc, ws, inputVars, delivery_counts, lead_counts, lead_counts_traditional,
                   cpc_stats, violations, internalVars, checkVars>>

\* between the loops: the columns are ensured, the lead counters created (lines 23-39)
CheckerStartLeads ==
    /\ pc = "checker_delivery"
    /\ i > Len(delivery_data)
    /\ ws' = [k \in DOMAIN ws |-> EnsureColumns(ws[k], CheckerColumns)]
    /\ lead_counts_traditional' = EmptyTraditional
    /\ pc' = "checker_lead"
    /\ i' = 1
    /\ UNCHANGED <<inputVars, delivery_counts, delivery_counts_traditional, lead_counts,
                   cpc_stats, violations, internalVars, checkVars>>

\* the worksheet row and statistics after the violation check (lines 91-100): the
\* comment joins every message
CheckerVerdict(written, stats, vs) ==
    IF vs # <<>>
    THEN \E comment \in {Join(<<";", " ">>, vs)} :
            /\ ws' = [ws EXCEPT ![i] = disqualify_lead(written, ExtraCPC, comment)]
            /\ calls' = Append(calls, [row |-> i, reason |-> ExtraCPC, comment |-> comment])
            /\ cpc_stats' = [stats EXCEPT !.cpc_violations = @ + 1]
    ELSE /\ ws' = [ws EXCEPT ![i] = written]
         /\ cpc_stats' = stats
         /\ UNCHANGED calls

\* one iteration of "for idx, lrow in enumerate(lead_data, start=2)" (lines 42-100)
CheckerLeadRow ==
    /\ pc = "checker_lead"
    /\ i <= Len(lead_data)
    /\ \E vals \in {CheckerValues(lead_data[i])} :
       \E lt \in {LeadTraditionalAfter(lead_counts_traditional, vals)} :
       \E totals \in {TraditionalTotals(delivery_counts_traditional, lt, vals)} :
       \E vs \in {CheckerViolations(vals, totals, cpc_limit)} :
          /\ lead_counts_traditional' = lt
          /\ violations' = Append(violations, vs)
          /\ CheckerVerdict(CheckerCellsWritten(ws[i], vals, totals),
                            [cpc_stats EXCEPT !.companies_checked =
                                IF vals.company # <<>> THEN @ \cup {vals.company} ELSE @],
                            vs)
    /\ i' = i + 1
    /\ UNCHANGED <<pc, inputVars, delivery_counts, delivery_counts_traditional, lead_counts,
                   internalVars, phoneVars, dupVars>>

\* "return self.stats" (line 102)
CheckerReturn ==
    /\ pc = "checker_lead"
    /\ i > Len(lead_data)
    /\ pc' = "checker_done"
    /\ UNCHANGED <<i, ws, inputVars, cpcVars, checkVars>>

(***************************************************************************)
(* The three CPC checkers, each run on a delivery list and a lead list     *)
(***************************************************************************)
MaxCheckerLead == 3

MaxCheckerDelivery == 1

\* DomainBasedChecker(cpc_limit) or CPCChecker(cpc_limit) constructed and entered
InitCheckers ==
    /\ pc \in {"cpc_delivery", "checker_delivery"}
    /\ mapping \in CpcMappings
    /\ delivery_data \in SeqsUpTo(CheckerDeliveryRows, MaxCheckerDelivery)
    /\ lead_data \in SeqsUpTo(CheckerLeadRows, MaxCheckerLead)
    /\ cpc_limit \in 1..MaxLimit
    /\ i = 1
    /\ ws = [k \in 1..Len(lead_data) |-> BlankRow]
    /\ delivery_counts = <<>>
    /\ delivery_counts_traditional = EmptyTraditional
    /\ lead_counts = <<>>
    /\ lead_counts_traditional = EmptyTraditional
    /\ cpc_stats = (IF pc = "cpc_delivery" THEN EmptyCpcStats ELSE EmptyCheckerStats)
    /\ violations = <<>>
    /\ internal_counts = EmptyTraditional
    /\ internal_stats = [internal_cpc_violations |-> 0, internal_companies_checked |-> {},
                         internal_root_domains_checked |-> {}]
    /\ internal_violations = <<>>
    /\ ChecksIdle

NextCheckers ==
    \/ CpcDeliveryRow \/ CpcStartLeads \/ CpcLeadRow \/ CpcReturn
    \/ CpcIntStart \/ CpcIntRow \/ CpcIntReturn
    \/ CheckerDeliveryRow \/ CheckerStartLeads \/ CheckerLeadRow \/ CheckerReturn

SpecCheckers == InitCheckers /\ [][NextCheckers]_vars

(***************************************************************************)
(* Properties of the three CPC checkers                                    *)
(***************************************************************************)
\* the exact domains a counter of the running pass has counted
CountedDomains ==
    DOMAIN delivery_counts_traditional.domain \cup DOMAIN lead_counts_traditional.domain
    \cup DOMAIN internal_counts.domain

\* the root domains a counter of the running pass has counted
CountedRoots ==
    DOMAIN delivery_counts_traditional.root_domain
    \cup DOMAIN lead_counts_traditional.root_domain

\* every message appended to a list "violations" so far
MessagesSoFar ==
    UNION {Range(violations[k]) : k \in 1..Len(violations)}
    \cup UNION {Range(internal_violations[k]) : k \in 1..Len(internal_violations)}

\* run_domain_based_cpc_check is running or has returned
DomainBasedPass == pc \in {"cpc_delivery", "cpc_lead", "done", "cpc_int", "returned"}

\* the root-domain total of every counted domain is at least its exact-domain total
RootAtLeastExact ==
    \A d \in CountedDomains :
        /\ TraditionalTotal(delivery_counts_traditional.root_domain,
                            lead_counts_traditional.root_domain, ExtractRootDomain(d))
             >= TraditionalTotal(delivery_counts_traditional.domain,
                                 lead_counts_traditional.domain, d)
        /\ DictGet(internal_counts.root_domain, ExtractRootDomain(d), 0)
             >= DictGet(internal_counts.domain, d, 0)

\* in run_domain_based_cpc_check the legacy root-domain total is the unified total
RootTotalIsUnifiedTotal ==
    DomainBasedPass =>
        \A r \in CountedRoots :
            UnifiedTotal(delivery_counts, lead_counts, RootDomainPrefix \o r)
              = TraditionalTotal(delivery_counts_traditional.root_domain,
                                 lead_counts_traditional.root_domain, r)

\* in run_domain_based_cpc_check a row has at most two messages, none of them the
\* legacy root-domain one, and the comment written holds all of them
AtMostTwoLegacyMessages ==
    DomainBasedPass =>
        \A k \in 1..Len(violations) :
            /\ Len(violations[k]) <= 2
            /\ \A msg \in Range(violations[k]) :
                  /\ ~StartsWith(msg, <<"C", "P", "C", " ", "E", "x", "c", "e", "e", "d", "e", "d", " ", "b", "y", " ", "R", "o", "o", "t", " ", "D", "o", "m", "a", "i", "n">>)
                  /\ \E c \in Range(ExtraCpcComments(k)) : IsSubstring(msg, c.comment)

\* C28: the root-domain running total is at least the exact-domain running total, so
\* no CPC checker emits an "Exceeded by Exact Domain" message; in
\* run_domain_based_cpc_check the legacy root-domain total equals the unified total,
\* the legacy root-domain message is never emitted, a row has at most two messages and
\* the two-message cap discards none.
C28_ExactDomainNeverEmitted ==
    /\ RootAtLeastExact
    /\ \A msg \in MessagesSoFar : ~IsSubstring(<<"E", "x", "c", "e", "e", "d", "e", "d", " ", "b", "y", " ", "E", "x", "a", "c", "t", " ", "D", "o", "m", "a", "i", "n">>, msg)
    /\ \A k \in 1..Len(calls) : ~IsSubstring(<<"E", "x", "c", "e", "e", "d", "e", "d", " ", "b", "y", " ", "E", "x", "a", "c", "t", " ", "D", "o", "m", "a", "i", "n">>, calls[k].comment)
    /\ RootTotalIsUnifiedTotal
    /\ AtMostTwoLegacyMessages

\* the domain-based and the internal check have returned: a row got the two legacy
\* messages (company and TAL company), and a row whose exact-domain total exceeds the
\* limit got the unified message and the internal root-domain message
C28_Witness ==
    /\ pc = "returned"
    /\ \E k \in 1..Len(lead_data) :
          /\ Len(violations[k]) = 2
          /\ IsSubstring(<<";", " ">>, ExtraCpcComments(k)[1].comment)
    /\ \E k \in 1..Len(lead_data) :
          /\ DomainRunningTotal(k) > cpc_limit
          /\ violations[k] = << UnifiedMessageOf(k) >>
          /\ \E msg \in Range(internal_violations[k]) :
                StartsWith(msg, <<"I", "n", "t", "e", "r", "n", "a", "l", " ", "C", "P", "C", " ", "E", "x", "c", "e", "e", "d", "e", "d", " ", "b", "y", " ", "R", "o", "o", "t", " ", "D", "o", "m", "a", "i", "n">>)

\* CPCChecker has returned: a row whose exact-domain total exceeds the limit got the
\* root-domain message, and so did a row whose exact-domain total does not
C28_CheckerWitness ==
    /\ pc = "checker_done"
    /\ \E j, k \in 1..Len(lead_data) :
          /\ DomainRunningTotal(j) > cpc_limit
          /\ DomainRunningTotal(k) <= cpc_limit
          /\ \A n \in {j, k} : \E msg \in Range(violations[n]) :
                StartsWith(msg, <<"C", "P", "C", " ", "E", "x", "c", "e", "e", "d", "e", "d", " ", "b", "y", " ", "R", "o", "o", "t", " ", "D", "o", "m", "a", "i", "n">>)

(***************************************************************************)
(* generate_email_permutations called with token mode and, on the same     *)
(* other arguments, without                                                *)
(***************************************************************************)
\* the largest row_budget of the calls
MaxBudget == 1

\* a plain and a compound first name, under a budget of zero and under budgets that
\* cut the token candidates; a compound first name makes restructure_compound_names
\* change the names
BudgetArgs ==
    [first_name : { <<"J", "a", "n", "e">>, <<"B", "a", " ", "L", "o", "c">> }, last_name : { <<"D", "o", "e">>, <<"O", "'", "D", "o", "e">> },
     domain : { <<"a", "c", "m", "e", ".", "c", "o", "m">> }, token_min_len : {1, 2}, row_budget : 0..MaxBudget,
     enable_token_mode : {TRUE}]

InitBudget ==
    /\ pc = "token_mode"
    /\ args \in BudgetArgs
    /\ result = <<>>
    /\ PassesIdle

\* generate_email_permutations(first_name, last_name, domain, token_min_len, row_budget,
\* enable_token_mode=True)
TokenModeCall ==
    /\ pc = "token_mode"
    /\ \E returned \in generate_email_permutations(args.first_name, args.last_name,
                                                   args.domain, args.token_min_len,
                                                   args.row_budget, TRUE) :
          result' = Append(result, returned)
    /\ pc' = "plain"
    /\ UNCHANGED <<i, ws, passInputs, args, cpcVars, checkVars>>

\* generate_email_permutations(first_name, last_name, domain, token_min_len, row_budget,
\* enable_token_mode=False)
PlainCall ==
    /\ pc = "plain"
    /\ \E returned \in generate_email_permutations(args.first_name, args.last_name,
                                                   args.domain, args.token_min_len,
                                                   args.row_budget, FALSE) :
          result' = Append(result, returned)
    /\ pc' = "compared"
    /\ UNCHANGED <<i, ws, passInputs, args, cpcVars, checkVars>>

NextBudget == TokenModeCall \/ PlainCall

SpecBudget == InitBudget /\ [][NextBudget]_vars

(***************************************************************************)
(* Properties of the token-mode budget                                     *)
(***************************************************************************)
\* the candidates the token-mode call returned and the plain call did not
TokenModeAdded == result[1].value \ result[2].value

\* C24 as stated: the set returned with token mode minus the set returned without has
\* at most row_budget elements, also when restructuring changes the names and the core
\* generator runs twice
C24_TokenBudget ==
    (pc = "compared" /\ ~result[1].raised /\ ~result[2].raised) =>
        Cardinality(TokenModeAdded) <= args.row_budget

(***************************************************************************)
(* The two duplicate passes on rows with names                             *)
(***************************************************************************)
MaxPassLead == 3

MaxPassDelivery == 1

\* every lead role mapped / the last name unmapped
PassMappings == { AllMapped, [AllMapped EXCEPT !.lead_last = NotAvailable] }

\* DuplicateChecker or InternalDuplicateChecker constructed and its pass entered
InitPasses ==
    /\ pc \in {"dup_ext_build", "dup_int"}
    /\ mapping \in PassMappings
    /\ delivery_data \in SeqsUpTo(PassDeliveryRows, MaxPassDelivery)
    /\ pc = "dup_int" => delivery_data = <<>>
    /\ lead_data \in SeqsUpTo(PassLeadRows, MaxPassLead)
    /\ cpc_limit = 1
    /\ i = 1
    /\ ws = [k \in 1..Len(lead_data) |-> CheckSheetRow(lead_data[k])]
    /\ CpcIdle
    /\ ChecksIdle

NextPasses ==
    \/ DupIntRow \/ DupIntSkip \/ DupIntReturn
    \/ DupExtBuild \/ DupExtRow \/ DupExtSkip \/ DupExtReturn

SpecPasses == InitPasses /\ [][NextPasses]_vars

(***************************************************************************)
(* Properties of the duplicate passes                                      *)
(***************************************************************************)
\* the email and the profile link lead row k is compared by
RowEmail(k) == DomainValue(lead_data[k], mapping["lead_email"])

RowLink(k) == PassLinkValue(lead_data[k])

\* the lead rows before row k that the pass processed
ProcessedBefore(k) == {j \in 1..(k - 1) : Processed(j)}

\* lead row k repeats the email or the link of an earlier processed row
ExactDuplicateRow(k) ==
    \E j \in ProcessedBefore(k) :
        \/ RowEmail(k) # <<>> /\ RowEmail(j) = RowEmail(k)
        \/ RowLink(k) # <<>> /\ RowLink(j) = RowLink(k)

\* the letters a to z of a lowercased name
LettersOf(name) == SelectSeq(Lower(name), LAMBDA c : c \in Range(LowerLetters))

\* the cleaned first name, cleaned last name and root domain of lead row k, each ""
\* when its role is unmapped
CleanFirst(k) ==
    IF mapping["lead_first"] = NotAvailable THEN <<>>
    ELSE LettersOf(CellOf(lead_data[k], mapping["lead_first"]))

CleanLast(k) ==
    IF mapping["lead_last"] = NotAvailable THEN <<>>
    ELSE LettersOf(CellOf(lead_data[k], mapping["lead_last"]))

RootOf(k) == RowRoot(lead_data[k], mapping["lead_domain"])

\* first.last, firstlast, first.last[:3] and firstlast[:3] at the root domain, for a
\* row with cleaned names and a domain
ExpectedSignatures(k) ==
    IF CleanFirst(k) = <<>> \/ CleanLast(k) = <<>> \/ RootOf(k) = <<>> THEN {}
    ELSE { CleanFirst(k) \o sep \o last \o <<"@">> \o RootOf(k) :
             sep \in { <<>>, <<".">> },
             last \in {CleanLast(k)}
                      \cup (IF Len(CleanLast(k)) >= 3
                            THEN {SubSeq(CleanLast(k), 1, 3)} ELSE {}) }

\* lead row k was processed and was not an exact email or link duplicate
NameRecorded(k) == Processed(k) /\ ~ExactDuplicateRow(k)

\* the lead rows the internal pass has flagged by the name check
NameFlagged ==
    { d.row - 1 : d \in {e \in Range(dup_stats.internal_duplicate_details) :
                            e.type = "name_root_domain"} }

\* the pass is about to "continue" on a disqualified row
SkipStep ==
    /\ pc \in {"dup_int", "dup_ext"}
    /\ i <= Len(lead_data)
    /\ ws[i][StatusHeader] = Disqualified

\* the running sets hold values of processed rows only, and no statistic and no
\* writer call names a skipped row
OnlyProcessedRowsSeen ==
    pc \in {"dup_int", "dup_ext"} =>
        /\ seen_signatures.emails \cup lead_signatures.emails
             \subseteq {RowEmail(j) : j \in ProcessedBefore(i)}
        /\ seen_signatures.linkedin \cup lead_signatures.linkedin
             \subseteq {RowLink(j) : j \in ProcessedBefore(i)}
        /\ seen_signatures.name_domain_combinations
             \subseteq UNION {ExpectedSignatures(j) : j \in ProcessedBefore(i)}
        /\ \A d \in Range(dup_stats.internal_duplicate_details)
                    \cup Range(dup_stats.duplicate_details) : Processed(d.row - 1)
        /\ \A n \in 1..Len(calls) : Processed(calls[n].row)
        /\ dup_stats.internal_duplicates + dup_stats.duplicates_found
             <= Cardinality(ProcessedBefore(i))

\* C22: a lead row whose status is "Disqualified" when the external or the internal
\* duplicate pass reaches it keeps its status, reason and comment, is counted in no
\* duplicate statistic and adds nothing to the running email, link and name sets, so
\* no later row is flagged on its account.
C22_DisqualifiedRowsSkipped ==
    /\ []OnlyProcessedRowsSeen
    /\ []InternalReasonsBacked
    /\ [][SkipStep => UNCHANGED <<ws, calls, dup_stats, seen_signatures, lead_signatures,
                                  delivery_signatures>>]_vars

\* a pass has returned: it skipped a disqualified row and left unflagged a later row
\* with the same email, link and names
C22_Witness ==
    /\ pc = "done"
    /\ \E k, j \in 1..Len(lead_data) :
          /\ k < j
          /\ ~Processed(k)
          /\ Processed(j)
          /\ RowEmail(j) # <<>> /\ RowEmail(j) = RowEmail(k)
          /\ ExpectedSignatures(j) # {} /\ ExpectedSignatures(j) = ExpectedSignatures(k)
          /\ ws[j][StatusHeader] = <<>>
          /\ ws[k][CommentHeader] = <<>>

NameSetIsUnion ==
    pc = "dup_int" =>
        seen_signatures.name_domain_combinations
          = UNION {ExpectedSignatures(k) : k \in {j \in 1..(i - 1) : NameRecorded(j)}}

\* the email, link and name sets of the internal pass grow
SetsGrow ==
    /\ seen_signatures.emails \subseteq seen_signatures'.emails
    /\ seen_signatures.linkedin \subseteq seen_signatures'.linkedin
    /\ seen_signatures.name_domain_combinations
         \subseteq seen_signatures'.name_domain_combinations

\* C30: in the internal duplicate pass the running name+domain set is, before each
\* row, the union of the conservative signatures of the earlier processed rows that
\* were not exact email/link duplicates (a row flagged for an exact duplicate records
\* its email and link only, a row flagged by the name check records its signatures);
\* the email, link and name sets only grow.
C30_RunningNameSet == []NameSetIsUnion /\ [][SetsGrow]_vars

\* three rows processed: the second flagged by the name check with its signatures
\* recorded, the third an exact email duplicate whose email is seen and whose name
\* signatures are not
C30_Witness ==
    /\ pc = "dup_int"
    /\ i = 4
    /\ 2 \in NameFlagged
    /\ ExpectedSignatures(2) \ ExpectedSignatures(1) # {}
    /\ ExpectedSignatures(2) \subseteq seen_signatures.name_domain_combinations
    /\ ExactDuplicateRow(3)
    /\ RowEmail(3) \in seen_signatures.emails
    /\ ExpectedSignatures(3) # {}
    /\ ExpectedSignatures(3) \cap seen_signatures.name_domain_combinations = {}

====
